---- MODULE Spec2Model ----
(***************************************************************************)
(* A model of the expression builders of simple-dynamo-wrapper: the filter *)
(* compiler (generateDynamoFilterAttributes), the key-condition compiler   *)
(* (createKeyConditionExpression), the query, scan and update command      *)
(* assemblers, the reserved-word aliasing, and the query-parameter parser  *)
(* (extractQueryReqFromParams).                                            *)
(*                                                                         *)
(* Strings are TLA+ strings; a character of a string s is SubSeq(s, i, i). *)
(* A JavaScript value is a record [k, s, n, arr]: k names its kind, s      *)
(* carries a string's text, n a number's (or a boolean's) value and arr an *)
(* array's elements.                                                       *)
(***************************************************************************)
EXTENDS Integers, Sequences, FiniteSets, TLC

VARIABLES
    filters,                    \* generateDynamoFilterAttributes: the input list
    i,                          \* ... the loop index (0-based, as in the source)
    expressionAttributeNames,   \* ... the name map built so far
    expressionAttributeValues,  \* ... the value map built so far
    parts,                      \* ... the per-filter fragments pushed so far
    filterExpression,           \* ... the expression returned, "" before the return
    fpc,                        \* ... "start" | "loop" | "returned" | "null" | "threw"
    ferr,                       \* ... the message of the error thrown, "" if none
    queryRequest,               \* the query compilers: the DynamoQueryRequest given
    queryInput,                 \* ... the other fields of the CustomQueryCommandInput
    qpc,                        \* ... "start" | "key-returned" | "key-threw" | "query-returned" | "query-threw"
    keyConditionExpression,     \* ... the result of createKeyConditionExpression
    commandInput,               \* ... the result of buildQueryCommandInput
    qerr,                       \* ... the message of the error thrown, "" if none
    updateInput,                \* buildUpdateCommandInput: the CustomUpdateCommandInput given
    updateNames,                \* ... its local names
    updateValues,               \* ... its local values
    updateParts,                \* ... its local updateParts
    fieldIndex,                 \* ... the number of item fields the for-in loop has visited
    updateCommand,              \* ... the UpdateCommandInput returned
    upc,                        \* ... "start" | "loop" | "returned" | "threw"
    uerr,                       \* ... the message of the error thrown, "" if none
    aliasTexts,                 \* replaceReservedKeywordsFromUpdateExp: an expression and its successive rewrites
    scanInput,                  \* buildScanCommandInput: the CustomScanCommandInput given
    scanCommand,                \* ... the ScanCommandInput returned
    spc,                        \* ... "start" | "returned" | "threw"
    serr,                       \* ... the message of the error thrown, "" if none
    qParams,                    \* extractQueryReqFromParams: the EventParams given
    defaultQry,                 \* ... the default DynamoQueryRequest given
    parsedQuery,                \* ... the DynamoQueryRequest returned
    ppc,                        \* ... "start" | "returned" | "threw" (QueryParseError)
    calls,                      \* compilation calls in progress side by side: the locals of each
    regexLastIndex              \* UPDATE_RESERVED_REGEX.lastIndex, the one module-level mutable field

fvars == <<filters, i, expressionAttributeNames, expressionAttributeValues, parts, filterExpression, fpc, ferr>>
qvars == <<queryRequest, queryInput, qpc, keyConditionExpression, commandInput, qerr>>
uvars == <<updateInput, updateNames, updateValues, updateParts, fieldIndex, updateCommand, upc, uerr>>
avars == <<aliasTexts>>
svars == <<scanInput, scanCommand, spc, serr>>
pvars == <<qParams, defaultQry, parsedQuery, ppc>>
cvars == <<calls, regexLastIndex>>

vars == <<fvars, qvars, uvars, avars, svars, pvars, cvars>>

-----------------------------------------------------------------------------
(* Bounds of the model *)

MaxFilters == 2
\* the longest item buildUpdateCommandInput is given
MaxItemFields == 2
\* the number of times the aliasing is applied to one expression
MaxRewrites == 2

-----------------------------------------------------------------------------
(* JavaScript values and optional operands *)

JStr(s) == [k |-> "string", s |-> s, n |-> 0, arr |-> <<>>]
JNum(n) == [k |-> "number", s |-> "", n |-> n, arr |-> <<>>]
JNaN == [k |-> "NaN", s |-> "", n |-> 0, arr |-> <<>>]
JInfinity == [k |-> "Infinity", s |-> "", n |-> 0, arr |-> <<>>]
JBool(b) == [k |-> "boolean", s |-> "", n |-> IF b THEN 1 ELSE 0, arr |-> <<>>]
JNull == [k |-> "null", s |-> "", n |-> 0, arr |-> <<>>]
JUndefined == [k |-> "undefined", s |-> "", n |-> 0, arr |-> <<>>]
\* an array of values, and a Buffer decoded from base64 text (kept as its text)
JArray(a) == [k |-> "array", s |-> "", n |-> 0, arr |-> a]
JBuffer(base64) == [k |-> "buffer", s |-> base64, n |-> 0, arr |-> <<>>]

\* An optional string field of an input object: present with text s, or absent.
Some(s) == [has |-> TRUE, s |-> s]
None == [has |-> FALSE, s |-> ""]

\* An optional array field: present with elements arr, or absent.
SomeArr(a) == [has |-> TRUE, arr |-> a]
NoArr == [has |-> FALSE, arr |-> <<>>]

\* An optional object field used as a map: present with entries m, or absent.
SomeMap(m) == [has |-> TRUE, m |-> m]
NoMap == [has |-> FALSE, m |-> [x \in {} |-> x]]

\* The value a JavaScript expression reads from an optional string field.
ValueOf(o) == IF o.has THEN JStr(o.s) ELSE JUndefined

-----------------------------------------------------------------------------
(* Objects used as maps: functions from keys to values *)

EmptyMap == [x \in {} |-> x]

Put(m, key, val) == [x \in (DOMAIN m) \cup {key} |-> IF x = key THEN val ELSE m[x]]

\* { ...extra, ...base }: the spread written the other way round, base wins
SpreadKeepingBase(base, extra) ==
    [x \in (DOMAIN base) \cup (DOMAIN extra) |-> IF x \in DOMAIN base THEN base[x] ELSE extra[x]]

\* { ...base, ...extra }: extra wins on a shared key
Spread(base, extra) ==
    [x \in (DOMAIN base) \cup (DOMAIN extra) |-> IF x \in DOMAIN extra THEN extra[x] ELSE base[x]]

-----------------------------------------------------------------------------
(* The state of a component that is not called in a behaviour *)

FilterOff ==
    /\ filters = <<>>
    /\ i = 0
    /\ expressionAttributeNames = EmptyMap
    /\ expressionAttributeValues = EmptyMap
    /\ parts = <<>>
    /\ filterExpression = ""
    /\ fpc = "off"
    /\ ferr = ""

NoRequest ==
    [pKey |-> "", pKeyType |-> "", pKeyProp |-> "", sKey |-> None, sKeyType |-> None,
     sKeyProp |-> None, skValue2 |-> None, skValue2Type |-> None, skComparator |-> None]

NoQueryInput ==
    [projectionExpression |-> None, extraExpAttributeNames |-> EmptyMap,
     extraExpAttributeValues |-> EmptyMap]

NoCommand ==
    [KeyConditionExpression |-> "", ProjectionExpression |-> None,
     ExpressionAttributeNames |-> EmptyMap, ExpressionAttributeValues |-> EmptyMap]

QueryOff ==
    /\ queryRequest = NoRequest
    /\ queryInput = NoQueryInput
    /\ qpc = "off"
    /\ keyConditionExpression = ""
    /\ commandInput = NoCommand
    /\ qerr = ""

NoUpdateInput ==
    [item |-> NoArr, updateExpression |-> None,
     expressionAttributeNames |-> NoMap, expressionAttributeValues |-> NoMap,
     extraExpAttributeNames |-> NoMap, extraExpAttributeValues |-> NoMap]

NoUpdateCommand ==
    [UpdateExpression |-> "", ExpressionAttributeNames |-> NoMap, ExpressionAttributeValues |-> NoMap]

UpdateOff ==
    /\ updateInput = NoUpdateInput
    /\ updateNames = EmptyMap
    /\ updateValues = EmptyMap
    /\ updateParts = <<>>
    /\ fieldIndex = 0
    /\ updateCommand = NoUpdateCommand
    /\ upc = "off"
    /\ uerr = ""

AliasOff == aliasTexts = <<>>

NoScanInput ==
    [filtersAttributes |-> NoArr, filterExpression |-> None,
     expressionAttributeNames |-> NoMap, expressionAttributeValues |-> NoMap,
     extraExpAttributeNames |-> NoMap, extraExpAttributeValues |-> NoMap]

NoScanCommand ==
    [FilterExpression |-> None, ExpressionAttributeNames |-> NoMap, ExpressionAttributeValues |-> NoMap]

ScanOff ==
    /\ scanInput = NoScanInput
    /\ scanCommand = NoScanCommand
    /\ spc = "off"
    /\ serr = ""

NoLimit == [has |-> FALSE, n |-> 0]

NoParsedQuery ==
    [pKey |-> "", pKeyType |-> "", pKeyProp |-> "", sKey |-> None, sKeyType |-> None,
     sKeyProp |-> None, skValue2 |-> None, skValue2Type |-> None, skComparator |-> None,
     indexName |-> None, limit |-> NoLimit]

ParserOff ==
    /\ qParams = NoMap
    /\ defaultQry = EmptyMap
    /\ parsedQuery = NoParsedQuery
    /\ ppc = "off"

ConcurrentOff ==
    /\ calls = <<>>
    /\ regexLastIndex = 0

-----------------------------------------------------------------------------
(* Strings *)

Char(s, p) == SubSeq(s, p, p)

LowerAlphabet == "abcdefghijklmnopqrstuvwxyz"
UpperAlphabet == "ABCDEFGHIJKLMNOPQRSTUVWXYZ"
DigitChars == "0123456789"

IndexIn(alphabet, c) ==
    IF \E p \in 1..Len(alphabet) : Char(alphabet, p) = c
    THEN CHOOSE p \in 1..Len(alphabet) : Char(alphabet, p) = c
    ELSE 0

LowerLetters == { Char(LowerAlphabet, p) : p \in 1..Len(LowerAlphabet) }
UpperLetters == { Char(UpperAlphabet, p) : p \in 1..Len(UpperAlphabet) }
Digits == { Char(DigitChars, p) : p \in 1..Len(DigitChars) }

IsDigit(c) == c \in Digits
IsSpace(c) == c = " "

\* the upper-case letter of each lower-case letter, and the converse
UpperOf == [c \in LowerLetters |-> Char(UpperAlphabet, IndexIn(LowerAlphabet, c))]
LowerOf == [c \in UpperLetters |-> Char(LowerAlphabet, IndexIn(UpperAlphabet, c))]

ToUpperChar(c) == IF c \in LowerLetters THEN UpperOf[c] ELSE c
ToLowerChar(c) == IF c \in UpperLetters THEN LowerOf[c] ELSE c

RECURSIVE ToUpperCase(_)
ToUpperCase(s) == IF s = "" THEN "" ELSE ToUpperChar(Head(s)) \o ToUpperCase(Tail(s))

RECURSIVE ToLowerCase(_)
ToLowerCase(s) == IF s = "" THEN "" ELSE ToLowerChar(Head(s)) \o ToLowerCase(Tail(s))

RECURSIVE TrimStart(_)
TrimStart(s) == IF s # "" /\ IsSpace(Head(s)) THEN TrimStart(Tail(s)) ELSE s

RECURSIVE TrimEnd(_)
TrimEnd(s) == IF s # "" /\ IsSpace(Char(s, Len(s))) THEN TrimEnd(SubSeq(s, 1, Len(s) - 1)) ELSE s

Trim(s) == TrimEnd(TrimStart(s))

StartsWith(s, prefix) == Len(s) >= Len(prefix) /\ SubSeq(s, 1, Len(prefix)) = prefix

\* String.prototype.split(sep) for a one-character separator
RECURSIVE SplitFrom(_, _, _, _, _)
SplitFrom(s, sep, pos, cur, acc) ==
    IF pos > Len(s) THEN Append(acc, cur)
    ELSE IF Char(s, pos) = sep THEN SplitFrom(s, sep, pos + 1, "", Append(acc, cur))
    ELSE SplitFrom(s, sep, pos + 1, cur \o Char(s, pos), acc)

Split(s, sep) == SplitFrom(s, sep, 1, "", <<>>)

\* a non-empty string is truthy; undefined and "" are falsy
Truthy(o) == o.has /\ o.s # ""

\* Array.prototype.join
RECURSIVE Join(_, _)
Join(arr, sep) ==
    IF Len(arr) = 0 THEN ""
    ELSE IF Len(arr) = 1 THEN arr[1]
    ELSE arr[1] \o sep \o Join(Tail(arr), sep)

-----------------------------------------------------------------------------
(* Number(raw): the numeric value of a string, over integer literals *)

RECURSIVE DigitsValue(_, _)
DigitsValue(s, acc) ==
    IF s = "" THEN acc ELSE DigitsValue(Tail(s), acc * 10 + (IndexIn(DigitChars, Head(s)) - 1))

AllDigits(s) == s # "" /\ \A p \in 1..Len(s) : IsDigit(Char(s, p))

\* Number(undefined) is NaN; Number("") and Number("  ") are 0; a decimal
\* integer literal, optionally signed, is its value; "Infinity" is not finite;
\* any other text is NaN.
NumberOfTrimmed(t) ==
    IF t = "" THEN JNum(0)
    ELSE IF AllDigits(t) THEN JNum(DigitsValue(t, 0))
    ELSE IF Head(t) = "-" /\ AllDigits(Tail(t)) THEN JNum(0 - DigitsValue(Tail(t), 0))
    ELSE IF Head(t) = "+" /\ AllDigits(Tail(t)) THEN JNum(DigitsValue(Tail(t), 0))
    ELSE IF t \in {"Infinity", "+Infinity", "-Infinity"} THEN JInfinity
    ELSE JNaN

Number(v) == IF v.k # "string" THEN JNaN ELSE NumberOfTrimmed(Trim(v.s))

IsFinite(v) == v.k = "number"

-----------------------------------------------------------------------------
(* Outcomes of a call: a value returned, or an error thrown *)

Ok(v) == [ok |-> TRUE, val |-> v, err |-> ""]
Throw(msg) == [ok |-> FALSE, val |-> JUndefined, err |-> msg]

\* the same for a call that returns a string
OkStr(str) == [ok |-> TRUE, val |-> str, err |-> ""]
ThrowStr(msg) == [ok |-> FALSE, val |-> "", err |-> msg]

\* the same for a map under construction
OkMap(m) == [ok |-> TRUE, m |-> m, err |-> ""]
ThrowMap(msg) == [ok |-> FALSE, m |-> EmptyMap, err |-> msg]

-----------------------------------------------------------------------------
(* Value coercion of the filter compiler *)

\* parseValueByType(type, raw); raw is the JavaScript value passed (a string,
\* or undefined when the caller passes an absent field).
\* if (!Number.isFinite(n)) throw new Error(msg); return n;
FiniteOrThrow(n, msg) == IF ~IsFinite(n) THEN Throw(msg) ELSE Ok(n)

\* the BOOL case, from the normalized text
BoolOrThrow(normalized, raw) ==
    IF normalized = "true" \/ normalized = "1" THEN Ok(JBool(TRUE))
    ELSE IF normalized = "false" \/ normalized = "0" THEN Ok(JBool(FALSE))
    ELSE Throw("Invalid boolean value \"" \o raw.s \o "\" for type BOOL")

parseValueByType(type, raw) ==
    CASE type = "S" -> Ok(raw)
      [] type = "N" -> FiniteOrThrow(Number(raw), "Invalid numeric value \"" \o raw.s \o "\" for type N")
      [] type = "BOOL" ->
            IF raw.k # "string" THEN Throw("TypeError: Cannot read properties of undefined (reading 'trim')")
            ELSE BoolOrThrow(ToLowerCase(Trim(raw.s)), raw)
      [] type = "NULL" -> Ok(JNull)
      [] OTHER -> Ok(raw)

parseSetElement(type, raw) ==
    IF type = "SS" THEN Ok(raw)
    ELSE IF type = "NS"
    THEN FiniteOrThrow(Number(raw), "Invalid numeric value \"" \o raw.s \o "\" for type NS element")
    ELSE parseValueByType(type, raw)

requireValue(f, idx) ==
    IF ~f.value.has THEN Throw(f.condition \o " requires value for filter[" \o ToString(idx) \o "]")
    ELSE Ok(JStr(f.value.s))

-----------------------------------------------------------------------------
(* generateDynamoFilterAttributes: one iteration of the loop over filters *)

\* a variant that numbers the name tokens from 1
makeNameTokenFromOne(idx) == "#f" \o ToString(idx + 1)

makeNameToken(idx) == "#f" \o ToString(idx)

\* a variant that leaves the filter index out of the value token
makeValueTokenWithoutIndex(idx, suffix) == ":f" \o suffix

makeValueToken(idx, suffix) == ":f" \o ToString(idx) \o suffix

\* The outcome of one loop iteration: whether it completed, the fragment it
\* pushed, the value map after it, and the message of the error it threw.
Pushed(part, vals) == [ok |-> TRUE, part |-> part, vals |-> vals, err |-> ""]
Thrown(msg, vals) == [ok |-> FALSE, part |-> "", vals |-> vals, err |-> msg]

\* expressionAttributeValues[tok] = <parsed>; parts.push(part)
AssignAndPush(parsed, tok, part, vals) ==
    IF parsed.ok THEN Pushed(part, Put(vals, tok, parsed.val)) ELSE Thrown(parsed.err, vals)

\* the inner loop of the set path of CONTAINS / NOT_CONTAINS, from element j (0-based)
RECURSIVE SetLoop(_, _, _, _, _)
SetLoopBody(filter, idx, j, vals, orParts, tok, parsed) ==
    IF ~parsed.ok THEN [ok |-> FALSE, vals |-> vals, orParts |-> orParts, err |-> parsed.err]
    ELSE SetLoop(filter, idx, j + 1, Put(vals, tok, parsed.val),
                 Append(orParts, "contains(" \o makeNameToken(idx) \o ", " \o tok \o ")"))

SetLoop(filter, idx, j, vals, orParts) ==
    IF j >= Len(filter.values.arr) THEN [ok |-> TRUE, vals |-> vals, orParts |-> orParts, err |-> ""]
    ELSE SetLoopBody(filter, idx, j, vals, orParts, makeValueToken(idx, "vs" \o ToString(j)),
                     parseSetElement(filter.type, JStr(filter.values.arr[j + 1])))

\* a variant that spells inequality '!='
ComparatorOpBang(condition) ==
    IF condition = "EQUAL_TO" THEN "="
    ELSE IF condition = "NOT_EQUAL_TO" THEN "!="
    ELSE IF condition = "LESS_THAN" THEN "<"
    ELSE IF condition = "LESS_THAN_OR_EQUAL_TO" THEN "<="
    ELSE IF condition = "GREATER_THAN" THEN ">"
    ELSE ">="

ComparatorOp(condition) ==
    IF condition = "EQUAL_TO" THEN "="
    ELSE IF condition = "NOT_EQUAL_TO" THEN "<>"
    ELSE IF condition = "LESS_THAN" THEN "<"
    ELSE IF condition = "LESS_THAN_OR_EQUAL_TO" THEN "<="
    ELSE IF condition = "GREATER_THAN" THEN ">"
    ELSE ">="

\* expressionAttributeValues[tok] = parseValueByType(filter.type, requireValue(filter, i)); parts.push(part)
RequireParseAndPush(filter, req, tok, part, vals) ==
    IF ~req.ok THEN Thrown(req.err, vals)
    ELSE AssignAndPush(parseValueByType(filter.type, req.val), tok, part, vals)

CaseExists(filter, idx, vals) ==
    Pushed("(attribute_exists(" \o makeNameToken(idx) \o "))", vals)

CaseNotExists(filter, idx, vals) ==
    Pushed("(attribute_not_exists(" \o makeNameToken(idx) \o "))", vals)

CaseBeginsWith(filter, idx, vals) ==
    IF filter.type # "S"
    THEN Thrown("BEGINS_WITH is only valid for type S (filter[" \o ToString(idx) \o "] has type "
                \o filter.type \o ")", vals)
    ELSE RequireParseAndPush(filter, requireValue(filter, idx), makeValueToken(idx, "v"),
                             "begins_with(" \o makeNameToken(idx) \o ", " \o makeValueToken(idx, "v") \o ")",
                             vals)

\* a variant that wraps the OR-joined calls whatever their number
ContainsSetPushAlwaysWrapped(loop) ==
    IF ~loop.ok THEN Thrown(loop.err, loop.vals)
    ELSE Pushed("((" \o Join(loop.orParts, " OR ") \o "))", loop.vals)

\* parts.push(`(${orParts.length === 1 ? orParts[0] : `(${orParts.join(' OR ')})`})`)
ContainsSetPush(loop) ==
    IF ~loop.ok THEN Thrown(loop.err, loop.vals)
    ELSE Pushed("(" \o (IF Len(loop.orParts) = 1 THEN loop.orParts[1]
                        ELSE "(" \o Join(loop.orParts, " OR ") \o ")") \o ")", loop.vals)

CaseContains(filter, idx, vals) ==
    IF filter.type = "SS" \/ filter.type = "NS"
    THEN IF ~filter.values.has \/ Len(filter.values.arr) = 0
         THEN Thrown("CONTAINS with " \o filter.type \o " requires values[] (non-empty) for filter["
                     \o ToString(idx) \o "]", vals)
         ELSE ContainsSetPush(SetLoop(filter, idx, 0, vals, <<>>))
    ELSE \* parseValueByType(filter.type, filter.value!): the field is passed on unchecked
         AssignAndPush(parseValueByType(filter.type, ValueOf(filter.value)), makeValueToken(idx, "v"),
                       "(contains(" \o makeNameToken(idx) \o ", " \o makeValueToken(idx, "v") \o "))", vals)

\* a variant that drops the inner parentheses around a single call
NotContainsSetPushLikeContains(loop) ==
    IF ~loop.ok THEN Thrown(loop.err, loop.vals)
    ELSE Pushed("(NOT " \o (IF Len(loop.orParts) = 1 THEN loop.orParts[1]
                            ELSE "(" \o Join(loop.orParts, " OR ") \o ")") \o ")", loop.vals)

\* parts.push(`(NOT (${orParts.join(' OR ')}))`)
NotContainsSetPush(loop) ==
    IF ~loop.ok THEN Thrown(loop.err, loop.vals)
    ELSE Pushed("(NOT (" \o Join(loop.orParts, " OR ") \o "))", loop.vals)

CaseNotContains(filter, idx, vals) ==
    IF filter.type = "SS" \/ filter.type = "NS"
    THEN IF ~filter.values.has \/ Len(filter.values.arr) = 0
         THEN Thrown("NOT_CONTAINS with " \o filter.type \o " requires values[] (non-empty) for filter["
                     \o ToString(idx) \o "]", vals)
         ELSE NotContainsSetPush(SetLoop(filter, idx, 0, vals, <<>>))
    ELSE RequireParseAndPush(filter, requireValue(filter, idx), makeValueToken(idx, "v"),
                             "NOT contains(" \o makeNameToken(idx) \o ", " \o makeValueToken(idx, "v") \o ")",
                             vals)

\* the two assignments of the BETWEEN case and its push
BetweenAssign(p1, p2, nameToken, v1, v2, vals) ==
    IF ~p1.ok THEN Thrown(p1.err, vals)
    ELSE AssignAndPush(p2, v2, "(" \o nameToken \o " BETWEEN " \o v1 \o " AND " \o v2 \o ")",
                       Put(vals, v1, p1.val))

\* a variant that checks the type before the operands
CaseBetweenTypeFirst(filter, idx, vals) ==
    IF filter.type = "SS" \/ filter.type = "NS" \/ filter.type = "BOOL" \/ filter.type = "NULL"
    THEN Thrown("BETWEEN is not valid for type " \o filter.type \o " (filter[" \o ToString(idx) \o "])", vals)
    ELSE IF ~filter.value.has \/ ~filter.value2.has
    THEN Thrown("BETWEEN requires value and value2 for filter[" \o ToString(idx) \o "]", vals)
    ELSE BetweenAssign(parseValueByType(filter.type, JStr(filter.value.s)),
                       parseValueByType(filter.type, JStr(filter.value2.s)),
                       makeNameToken(idx), makeValueToken(idx, "v"), makeValueToken(idx, "v2"), vals)

CaseBetween(filter, idx, vals) ==
    IF ~filter.value.has \/ ~filter.value2.has
    THEN Thrown("BETWEEN requires value and value2 for filter[" \o ToString(idx) \o "]", vals)
    ELSE IF filter.type = "SS" \/ filter.type = "NS" \/ filter.type = "BOOL" \/ filter.type = "NULL"
    THEN Thrown("BETWEEN is not valid for type " \o filter.type \o " (filter[" \o ToString(idx) \o "])", vals)
    ELSE BetweenAssign(parseValueByType(filter.type, JStr(filter.value.s)),
                       parseValueByType(filter.type, JStr(filter.value2.s)),
                       makeNameToken(idx), makeValueToken(idx, "v"), makeValueToken(idx, "v2"), vals)

CaseComparator(filter, idx, vals) ==
    IF filter.type = "SS" \/ filter.type = "NS"
    THEN Thrown("Comparator \"" \o filter.condition \o "\" is not supported for " \o filter.type
                \o "; use CONTAINS/NOT_CONTAINS", vals)
    ELSE RequireParseAndPush(filter, requireValue(filter, idx), makeValueToken(idx, "v"),
                             "(" \o makeNameToken(idx) \o " " \o ComparatorOp(filter.condition)
                             \o " " \o makeValueToken(idx, "v") \o ")", vals)

Comparators ==
    {"EQUAL_TO", "NOT_EQUAL_TO", "LESS_THAN", "LESS_THAN_OR_EQUAL_TO", "GREATER_THAN", "GREATER_THAN_OR_EQUAL_TO"}

\* switch (filter.condition)
CompileFilter(filter, idx, vals) ==
    CASE filter.condition = "EXISTS" -> CaseExists(filter, idx, vals)
      [] filter.condition = "NOT_EXISTS" -> CaseNotExists(filter, idx, vals)
      [] filter.condition = "BEGINS_WITH" -> CaseBeginsWith(filter, idx, vals)
      [] filter.condition = "CONTAINS" -> CaseContains(filter, idx, vals)
      [] filter.condition = "NOT_CONTAINS" -> CaseNotContains(filter, idx, vals)
      [] filter.condition = "BETWEEN" -> CaseBetween(filter, idx, vals)
      [] filter.condition \in Comparators -> CaseComparator(filter, idx, vals)
      [] OTHER -> Thrown("Unsupported filter condition: " \o filter.condition, vals)

-----------------------------------------------------------------------------
(* generateDynamoFilterAttributes: the loop, the return and the whole call *)

\* One pass of the for-loop body at index idx (0-based) over the locals.
IterationOutcome(r, names) ==
    [ok |-> r.ok, names |-> names, vals |-> r.vals, part |-> r.part, err |-> r.err]

FilterIteration(fs, idx, names, vals) ==
    IterationOutcome(CompileFilter(fs[idx + 1], idx, vals), Put(names, makeNameToken(idx), fs[idx + 1].name))

\* a variant that joins the fragments with OR
JoinPartsWithOr(prts) == Join(prts, " OR ")

\* parts.join(' AND ')
JoinParts(prts) == Join(prts, " AND ")

\* The call as a whole, for the callers of the compiler.
RECURSIVE FilterLoop(_, _, _, _, _)
FilterLoopBody(fs, idx, prts, it) ==
    IF ~it.ok
    THEN [status |-> "threw", filterExpression |-> "",
          expressionAttributeNames |-> EmptyMap, expressionAttributeValues |-> EmptyMap, err |-> it.err]
    ELSE FilterLoop(fs, idx + 1, it.names, it.vals, Append(prts, it.part))

FilterLoop(fs, idx, names, vals, prts) ==
    IF idx >= Len(fs)
    THEN [status |-> "returned", filterExpression |-> JoinParts(prts),
          expressionAttributeNames |-> names, expressionAttributeValues |-> vals, err |-> ""]
    ELSE FilterLoopBody(fs, idx, prts, FilterIteration(fs, idx, names, vals))

generateDynamoFilterAttributes(fs) ==
    IF Len(fs) = 0
    THEN [status |-> "null", filterExpression |-> "",
          expressionAttributeNames |-> EmptyMap, expressionAttributeValues |-> EmptyMap, err |-> ""]
    ELSE FilterLoop(fs, 0, EmptyMap, EmptyMap, <<>>)

-----------------------------------------------------------------------------
(* Reserved-word aliasing of a projection *)

\* RESERVED_KEYWORDS_SET (reserved-keywords-data): lower-case reserved words
RESERVED_KEYWORDS_SET == {"name", "size", "status"}

\* a variant of the map callback that looks the item up as written
AliasProjectionItemCaseSensitive(trimmed) ==
    IF trimmed = "" THEN trimmed
    ELSE IF trimmed \in RESERVED_KEYWORDS_SET THEN "#" \o trimmed ELSE trimmed

\* the map callback of replaceReservedKeywordsFromProjection, on the trimmed item
AliasProjectionItem(trimmed) ==
    IF trimmed = "" THEN trimmed
    ELSE IF ToLowerCase(trimmed) \in RESERVED_KEYWORDS_SET THEN "#" \o trimmed ELSE trimmed

RECURSIVE AliasProjectionItems(_)
AliasProjectionItems(items) ==
    IF Len(items) = 0 THEN <<>>
    ELSE <<AliasProjectionItem(Trim(Head(items)))>> \o AliasProjectionItems(Tail(items))

replaceReservedKeywordsFromProjection(projection) ==
    Join(AliasProjectionItems(Split(projection, ",")), ", ")

\* the loop of extractExpAttributeNamesFromExpression over the split items
RECURSIVE ExtractNamesFrom(_, _)
ExtractNamesAdd(attr, rest, result) ==
    ExtractNamesFrom(rest, IF StartsWith(attr, "#") THEN Put(result, attr, SubSeq(attr, 2, Len(attr)))
                           ELSE result)

ExtractNamesFrom(items, result) ==
    IF Len(items) = 0 THEN result ELSE ExtractNamesAdd(Trim(Head(items)), Tail(items), result)

extractExpAttributeNamesFromExpression(expression) == ExtractNamesFrom(Split(expression, ","), EmptyMap)

-----------------------------------------------------------------------------
(* Key-condition compiler *)

\* a variant of the switch of getOperatorSymbolByKey whose default returns '='
OperatorSymbolDefaultEqual(upper, operation) ==
    CASE upper = "BETWEEN" -> OkStr("BETWEEN")
      [] upper = "BEGINS_WITH" -> OkStr("BEGINS_WITH")
      [] upper = "GREATER_THAN" \/ upper = ">" -> OkStr(">")
      [] upper = "LESS_THAN" \/ upper = "<" -> OkStr("<")
      [] upper = "GREATER_THAN_OR_EQUAL" \/ upper = ">=" -> OkStr(">=")
      [] upper = "LESS_THAN_OR_EQUAL" \/ upper = "<=" -> OkStr("<=")
      [] OTHER -> OkStr("=")

\* switch (operation.toUpperCase()) of getOperatorSymbolByKey
OperatorSymbol(upper, operation) ==
    CASE upper = "BETWEEN" -> OkStr("BETWEEN")
      [] upper = "BEGINS_WITH" -> OkStr("BEGINS_WITH")
      [] upper = "GREATER_THAN" \/ upper = ">" -> OkStr(">")
      [] upper = "LESS_THAN" \/ upper = "<" -> OkStr("<")
      [] upper = "GREATER_THAN_OR_EQUAL" \/ upper = ">=" -> OkStr(">=")
      [] upper = "LESS_THAN_OR_EQUAL" \/ upper = "<=" -> OkStr("<=")
      [] upper = "EQUAL" \/ upper = "=" -> OkStr("=")
      [] OTHER -> ThrowStr("Invalid operation key: " \o operation)

\* a variant that compares the spelling as written
getOperatorSymbolByKeyCaseSensitive(operation) == OperatorSymbol(operation, operation)

getOperatorSymbolByKey(operation) == OperatorSymbol(ToUpperCase(operation), operation)

\* a variant of the switch whose BETWEEN case does not look at the second value
KeyConditionSwitchUncheckedBetween(symbol, queryReq) ==
    IF ~symbol.ok THEN ThrowStr(symbol.err)
    ELSE CASE symbol.val = "<" -> OkStr("#pk = :pk" \o " AND #sk < :sk")
           [] symbol.val = ">" -> OkStr("#pk = :pk" \o " AND #sk > :sk")
           [] symbol.val = "<=" -> OkStr("#pk = :pk" \o " AND #sk <= :sk")
           [] symbol.val = ">=" -> OkStr("#pk = :pk" \o " AND #sk >= :sk")
           [] symbol.val = "BEGINS_WITH" ->
                 IF ~Truthy(queryReq.sKey) THEN ThrowStr("BEGINS_WITH operation requires sortKey.")
                 ELSE OkStr("#pk = :pk" \o " AND begins_with(#sk, :skValue2)")
           [] symbol.val = "BETWEEN" -> OkStr("#pk = :pk" \o " AND #sk BETWEEN :sk AND :skValue2")
           [] OTHER -> OkStr("#pk = :pk" \o " AND #sk = :sk")

\* switch (getOperatorSymbolByKey(...)) of createKeyConditionExpression, a sort key being present
KeyConditionSwitch(symbol, queryReq) ==
    IF ~symbol.ok THEN ThrowStr(symbol.err)
    ELSE CASE symbol.val = "<" -> OkStr("#pk = :pk" \o " AND #sk < :sk")
           [] symbol.val = ">" -> OkStr("#pk = :pk" \o " AND #sk > :sk")
           [] symbol.val = "<=" -> OkStr("#pk = :pk" \o " AND #sk <= :sk")
           [] symbol.val = ">=" -> OkStr("#pk = :pk" \o " AND #sk >= :sk")
           [] symbol.val = "BEGINS_WITH" ->
                 IF ~Truthy(queryReq.sKey) THEN ThrowStr("BEGINS_WITH operation requires sortKey.")
                 ELSE OkStr("#pk = :pk" \o " AND begins_with(#sk, :skValue2)")
           [] symbol.val = "BETWEEN" ->
                 IF ~Truthy(queryReq.sKey) \/ ~Truthy(queryReq.skValue2)
                 THEN ThrowStr("BETWEEN operation requires both sk and skValue2.")
                 ELSE OkStr("#pk = :pk" \o " AND #sk BETWEEN :sk AND :skValue2")
           [] OTHER -> OkStr("#pk = :pk" \o " AND #sk = :sk")

\* a variant without the early return for a request that has no sort key
createKeyConditionExpressionNoEarlyReturn(queryReq) ==
    KeyConditionSwitch(
        getOperatorSymbolByKey(IF queryReq.skComparator.has THEN queryReq.skComparator.s ELSE "="),
        queryReq)

createKeyConditionExpression(queryReq) ==
    IF ~Truthy(queryReq.sKey) THEN OkStr("#pk = :pk")
    ELSE KeyConditionSwitch(
             getOperatorSymbolByKey(IF queryReq.skComparator.has THEN queryReq.skComparator.s ELSE "="),
             queryReq)

-----------------------------------------------------------------------------
(* parseDynamoKeyValue *)

RECURSIVE TrimAll(_)
TrimAll(items) == IF Len(items) = 0 THEN <<>> ELSE <<JStr(Trim(Head(items)))>> \o TrimAll(Tail(items))

\* .map((item) => Number(item.trim())).filter((num) => !isNaN(num))
RECURSIVE NumbersNotNaN(_)
KeepNotNaN(n, rest) == IF n.k = "NaN" THEN NumbersNotNaN(rest) ELSE <<n>> \o NumbersNotNaN(rest)
NumbersNotNaN(items) == IF Len(items) = 0 THEN <<>> ELSE KeepNotNaN(Number(JStr(Trim(Head(items)))), Tail(items))

RECURSIVE BuffersOf(_)
BuffersOf(items) == IF Len(items) = 0 THEN <<>> ELSE <<JBuffer(Trim(Head(items)))>> \o BuffersOf(Tail(items))

\* JSON.parse over the texts of the model: an unsigned integer, true, false or
\* null; any other text of the model is no JSON
JsonParseTrimmed(t, failure) ==
    IF AllDigits(t) /\ (Len(t) = 1 \/ Head(t) # "0") THEN Ok(JNum(DigitsValue(t, 0)))
    ELSE IF t = "true" THEN Ok(JBool(TRUE))
    ELSE IF t = "false" THEN Ok(JBool(FALSE))
    ELSE IF t = "null" THEN Ok(JNull)
    ELSE Throw(failure)

JsonParse(text, failure) == JsonParseTrimmed(Trim(text), failure)

parseDynamoKeyValue(key, keyType) ==
    CASE keyType = "S" -> Ok(JStr(key))
      [] keyType = "N" -> Ok(Number(JStr(key)))
      [] keyType = "BOOL" -> Ok(JBool(ToLowerCase(key) = "true"))
      [] keyType = "NULL" -> Ok(JNull)
      [] keyType = "M" -> JsonParse(key, "Invalid JSON format for partitionKeyType M (Map)")
      [] keyType = "L" -> JsonParse(key, "Invalid JSON format for partitionKeyType L (List)")
      [] keyType = "SS" -> Ok(JArray(TrimAll(Split(key, ","))))
      [] keyType = "NS" -> Ok(JArray(NumbersNotNaN(Split(key, ","))))
      [] keyType = "BS" -> Ok(JArray(BuffersOf(Split(key, ","))))
      [] OTHER -> Throw("Unsupported partitionKeyType: " \o keyType)

-----------------------------------------------------------------------------
(* buildQueryCommandInput *)

\* one conditional entry of the ExpressionAttributeValues literal
AddParsed(map, key, present, parsed) ==
    IF ~map.ok \/ ~present THEN map
    ELSE IF ~parsed.ok THEN ThrowMap(parsed.err)
    ELSE OkMap(Put(map.m, key, parsed.val))

\* the ExpressionAttributeValues literal, before the extras are spread in
QueryKeyValues(queryReq) ==
    AddParsed(
        AddParsed(
            AddParsed(OkMap(EmptyMap), ":pk", TRUE, parseDynamoKeyValue(queryReq.pKey, queryReq.pKeyType)),
            ":sk", Truthy(queryReq.sKey),
            parseDynamoKeyValue(queryReq.sKey.s, IF queryReq.sKeyType.has THEN queryReq.sKeyType.s ELSE "S")),
        ":skValue2", Truthy(queryReq.skValue2),
        parseDynamoKeyValue(queryReq.skValue2.s, IF queryReq.sKeyType.has THEN queryReq.sKeyType.s ELSE "S"))

\* the ExpressionAttributeNames literal
QueryNames(queryReq, ProjectionExpression, extraExpAttributeNames) ==
    Spread(
        Spread(
            Spread(Put(EmptyMap, "#pk", queryReq.pKeyProp),
                   IF Truthy(queryReq.sKeyProp) THEN Put(EmptyMap, "#sk", queryReq.sKeyProp.s) ELSE EmptyMap),
            IF Truthy(ProjectionExpression)
            THEN extractExpAttributeNamesFromExpression(ProjectionExpression.s) ELSE EmptyMap),
        extraExpAttributeNames)

\* the command object, once its parts are computed; a throw of any part leaves the function
QueryCommand(key, ProjectionExpression, names, values, extraExpAttributeValues) ==
    IF ~key.ok THEN [ok |-> FALSE, err |-> key.err, cmd |-> NoCommand]
    ELSE IF ~values.ok THEN [ok |-> FALSE, err |-> values.err, cmd |-> NoCommand]
    ELSE [ok |-> TRUE, err |-> "",
          cmd |-> [KeyConditionExpression |-> key.val, ProjectionExpression |-> ProjectionExpression,
                   ExpressionAttributeNames |-> names,
                   ExpressionAttributeValues |-> Spread(values.m, extraExpAttributeValues)]]

\* input.projectionExpression ? replaceReservedKeywordsFromProjection(...) : undefined
QueryProjection(projectionExpression) ==
    IF Truthy(projectionExpression) THEN Some(replaceReservedKeywordsFromProjection(projectionExpression.s))
    ELSE None

\* The fields copied through unchanged (TableName, IndexName, FilterExpression,
\* ScanIndexForward, ReturnConsumedCapacity, ExclusiveStartKey, Limit) are left out.
buildQueryCommandInput(queryReq, input) ==
    QueryCommand(createKeyConditionExpression(queryReq),
                 QueryProjection(input.projectionExpression),
                 QueryNames(queryReq, QueryProjection(input.projectionExpression), input.extraExpAttributeNames),
                 QueryKeyValues(queryReq),
                 input.extraExpAttributeValues)

-----------------------------------------------------------------------------
(* dynamoQueryRequestSch: the fields the query compilers read, and the second *)
(* value's type the refinement reads                                          *)

dynamoKeyAttrTypeSch == {"S", "N", "B"}

dynamoComparatorSch == {"=", "<", "<=", ">", ">=", "BETWEEN", "BEGINS_WITH"}

\* preprocess of qpStringOpt: '' and undefined become undefined, a string is trimmed
qpStringOpt(v) == IF ~v.has \/ v.s = "" THEN None ELSE Some(Trim(v.s))

\* the object after the preprocess steps of its fields
QueryRequestPreprocessed(raw) ==
    [raw EXCEPT !.pKey = Trim(raw.pKey), !.pKeyProp = Trim(raw.pKeyProp),
                !.sKey = qpStringOpt(raw.sKey), !.sKeyProp = qpStringOpt(raw.sKeyProp),
                !.skValue2 = qpStringOpt(raw.skValue2)]

\* the field schemas: qpStringReq is z.string().min(1), the types and the comparator are enums
QueryRequestFieldsValid(data) ==
    /\ Len(data.pKey) >= 1
    /\ data.pKeyType \in dynamoKeyAttrTypeSch
    /\ Len(data.pKeyProp) >= 1
    /\ data.sKeyType.has => data.sKeyType.s \in dynamoKeyAttrTypeSch
    /\ data.skValue2Type.has => data.skValue2Type.s \in dynamoKeyAttrTypeSch
    /\ data.skComparator.has => data.skComparator.s \in dynamoComparatorSch

\* superRefine adds no issue (lastEvaluatedKey is not modelled)
QueryRequestRefined(data) ==
    IF Truthy(data.skComparator)
    THEN /\ Truthy(data.sKey)
         /\ Truthy(data.sKeyProp)
         /\ Truthy(data.sKeyType)
         /\ IF data.skComparator.s = "BETWEEN"
            THEN Truthy(data.skValue2) /\ Truthy(data.skValue2Type)
            ELSE ~(Truthy(data.skValue2) \/ Truthy(data.skValue2Type))
    ELSE ~(Truthy(data.sKey) \/ Truthy(data.sKeyProp) \/ Truthy(data.sKeyType)
             \/ Truthy(data.skValue2) \/ Truthy(data.skValue2Type))

SchemaResult(data) ==
    [success |-> QueryRequestFieldsValid(data) /\ QueryRequestRefined(data), data |-> data]

\* dynamoQueryRequestSch.safeParse(raw)
dynamoQueryRequestSch(raw) == SchemaResult(QueryRequestPreprocessed(raw))


-----------------------------------------------------------------------------
(* Reserved-word aliasing of an update expression                             *)
(* UPDATE_RESERVED_REGEX = /\b(?:<reserved words>)\b(?=\s*=)/gi               *)

\* \w of the regular expression
IsWordChar(c) == c \in LowerLetters \/ c \in UpperLetters \/ IsDigit(c) \/ c = "_"

\* \b between the characters at p - 1 and at p
WordBoundaryAt(s, p) ==
    (p > 1 /\ p - 1 <= Len(s) /\ IsWordChar(Char(s, p - 1))) # (p <= Len(s) /\ IsWordChar(Char(s, p)))

RECURSIVE SkipSpaces(_, _)
SkipSpaces(s, p) == IF p <= Len(s) /\ IsSpace(Char(s, p)) THEN SkipSpaces(s, p + 1) ELSE p

CharAtOrEmpty(s, p) == IF p >= 1 /\ p <= Len(s) THEN Char(s, p) ELSE ""

\* (?=\s*=) at position p
LookaheadEquals(s, p) == CharAtOrEmpty(s, SkipSpaces(s, p)) = "="

\* the regular expression matches the reserved word kw at position p (flag i)
MatchesKeywordAt(s, p, kw) ==
    /\ WordBoundaryAt(s, p)
    /\ p + Len(kw) - 1 <= Len(s)
    /\ WordBoundaryAt(s, p + Len(kw))
    /\ ToLowerCase(SubSeq(s, p, p + Len(kw) - 1)) = ToLowerCase(kw)
    /\ LookaheadEquals(s, p + Len(kw))

\* the length of the match at position p, 0 if there is none
MatchLengthAt(s, p) ==
    IF \E kw \in RESERVED_KEYWORDS_SET : MatchesKeywordAt(s, p, kw)
    THEN Len(CHOOSE kw \in RESERVED_KEYWORDS_SET : MatchesKeywordAt(s, p, kw))
    ELSE 0

\* String.prototype.replace with the global flag: matches are found left to
\* right in the original text, each replaced by '#' + match
RECURSIVE ReplaceFrom(_, _)
ReplaceStep(s, p, matchLength) ==
    IF matchLength > 0
    THEN "#" \o SubSeq(s, p, p + matchLength - 1) \o ReplaceFrom(s, p + matchLength)
    ELSE Char(s, p) \o ReplaceFrom(s, p + 1)

ReplaceFrom(s, p) == IF p > Len(s) THEN "" ELSE ReplaceStep(s, p, MatchLengthAt(s, p))

replaceReservedKeywordsFromUpdateExp(updateExpression) == ReplaceFrom(updateExpression, 1)

\* expression.replace(/^\s*SET\s+/i, ''), on the text after its leading spaces
StripSetTrimmed(t, expression) ==
    IF Len(t) >= 4 /\ ToUpperCase(SubSeq(t, 1, 3)) = "SET" /\ IsSpace(Char(t, 4))
    THEN TrimStart(SubSeq(t, 4, Len(t)))
    ELSE expression

StripSet(expression) == StripSetTrimmed(TrimStart(expression), expression)

\* the loop of extractExpAttributeNamesFromUpdateExp over the assignments
RECURSIVE ExtractUpdateNamesFrom(_, _)
ExtractUpdateNamesAdd(leftSide, rest, result) ==
    ExtractUpdateNamesFrom(rest,
        IF leftSide = "" \/ ~StartsWith(leftSide, "#") THEN result
        ELSE Put(result, leftSide, SubSeq(leftSide, 2, Len(leftSide))))

ExtractUpdateNamesFrom(assignments, result) ==
    IF Len(assignments) = 0 THEN result
    ELSE ExtractUpdateNamesAdd(Trim(Split(Head(assignments), "=")[1]), Tail(assignments), result)

ExtractUpdateNamesOfBody(body) ==
    IF body = "" THEN EmptyMap ELSE ExtractUpdateNamesFrom(Split(body, ","), EmptyMap)

extractExpAttributeNamesFromUpdateExp(expression) == ExtractUpdateNamesOfBody(Trim(StripSet(expression)))

-----------------------------------------------------------------------------
(* buildUpdateCommandInput *)

\* for (const key in source) target[key] = source[key], when source is given
MergeInto(target, source) == IF source.has THEN Spread(target, source.m) ELSE target

\* names and values after the caller's maps are merged
MergedCallerNames(input) ==
    MergeInto(MergeInto(EmptyMap, input.expressionAttributeNames), input.extraExpAttributeNames)

MergedCallerValues(input) ==
    MergeInto(MergeInto(EmptyMap, input.expressionAttributeValues), input.extraExpAttributeValues)

\* values[key] !== undefined
IsDefinedAt(vals, key) == key \in DOMAIN vals /\ vals[key].k # "undefined"

\* do { candidate = `:${field}_update_${counter++}` } while (values[candidate] !== undefined)
RECURSIVE ProbeCandidate(_, _, _)
ProbeFrom(vals, field, counter, candidate) ==
    IF IsDefinedAt(vals, candidate) THEN ProbeCandidate(vals, field, counter + 1) ELSE candidate

ProbeCandidate(vals, field, counter) ==
    ProbeFrom(vals, field, counter, ":" \o field \o "_update_" \o ToString(counter))

\* the valueKey an item field is assigned
ValueKeyFor(vals, field) ==
    IF IsDefinedAt(vals, ":" \o field) THEN ProbeCandidate(vals, field, 1) ELSE ":" \o field

\* Object.keys(m).length > 0 ? m : (the property is not set)
NonEmptyOrUnset(m) == IF DOMAIN m # {} THEN SomeMap(m) ELSE NoMap

\* names after the auto-extracted names are added: a key of names is kept
WithAutoNames(nms, autoNames) == Spread(autoNames, nms)

\* The fields copied through unchanged (TableName, Key, ConditionExpression,
\* ReturnValues, ReturnConsumedCapacity, ReturnItemCollectionMetrics) are left out.
UpdateCommandOf(updateExpression, nms, vals) ==
    [UpdateExpression |-> updateExpression,
     ExpressionAttributeNames |-> NonEmptyOrUnset(nms),
     ExpressionAttributeValues |-> NonEmptyOrUnset(vals)]

\* the command of the generated mode, from the aliased expression
GeneratedCommand(updateExpression, nms, vals) ==
    UpdateCommandOf(updateExpression,
                    WithAutoNames(nms, extractExpAttributeNamesFromUpdateExp(updateExpression)),
                    vals)

-----------------------------------------------------------------------------
(* customScanCommandInputSch.parse, over the fields of the model *)

FilterValueTypes == {"S", "N", "BOOL", "NULL", "SS", "NS"}

FilterConditions ==
    {"EQUAL_TO", "NOT_EQUAL_TO", "LESS_THAN", "LESS_THAN_OR_EQUAL_TO", "GREATER_THAN",
     "GREATER_THAN_OR_EQUAL_TO", "EXISTS", "NOT_EXISTS", "BEGINS_WITH", "CONTAINS",
     "NOT_CONTAINS", "BETWEEN"}

\* hasValues of the superRefine of dynamoFilterSch
HasValues(f) == f.values.has /\ Len(f.values.arr) > 0

\* the superRefine of dynamoFilterSch adds no issue
FilterRefined(f) ==
    IF f.condition = "EXISTS" \/ f.condition = "NOT_EXISTS"
    THEN ~(f.value.has \/ f.value2.has \/ HasValues(f))
    ELSE IF f.condition = "BETWEEN"
    THEN f.value.has /\ f.value2.has /\ ~HasValues(f)
    ELSE IF f.type = "SS" \/ f.type = "NS"
    THEN HasValues(f) /\ ~(f.value.has \/ f.value2.has)
    ELSE f.value.has /\ ~f.value2.has /\ ~HasValues(f)

\* dynamoFilterSch accepts the filter
dynamoFilterSch(f) ==
    /\ Len(f.name) >= 1
    /\ f.type \in FilterValueTypes
    /\ f.condition \in FilterConditions
    /\ f.values.has => (Len(f.values.arr) >= 1 /\ \A j \in 1..Len(f.values.arr) : Len(f.values.arr[j]) >= 1)
    /\ FilterRefined(f)

\* z.array(dynamoFilterSch).max(50)
MaxFiltersInput == 50

dynamoFiltersInputSch(fs) == Len(fs) <= MaxFiltersInput /\ \A j \in 1..Len(fs) : dynamoFilterSch(fs[j])

\* customScanCommandInputSch accepts the input (the fields of the model are of
\* their declared types; the segment and index fields are left out)
customScanCommandInputSch(custom) ==
    custom.filtersAttributes.has => dynamoFiltersInputSch(custom.filtersAttributes.arr)

-----------------------------------------------------------------------------
(* buildScanCommandInput *)

\* if (!base && !extra) return undefined; return { ...(base ?? {}), ...(extra ?? {}) }
mergeAttrValues(base, extra) ==
    IF ~base.has /\ ~extra.has THEN NoMap ELSE SomeMap(Spread(base.m, extra.m))

mergeAttrNames(base, extra) ==
    IF ~base.has /\ ~extra.has THEN NoMap ELSE SomeMap(Spread(base.m, extra.m))

isNonEmptyObject(v) == v.has /\ DOMAIN v.m # {}

\* String.prototype.includes for a one-character text
Includes(s, c) == \E p \in 1..Len(s) : Char(s, p) = c

ScanOk(cmd) == [ok |-> TRUE, err |-> "", cmd |-> cmd]
ScanThrow(msg) ==
    [ok |-> FALSE, err |-> msg,
     cmd |-> [FilterExpression |-> None, ExpressionAttributeNames |-> NoMap,
              ExpressionAttributeValues |-> NoMap]]

\* the auto-generated filterAttributes path
ScanAutoPath(generated, custom) ==
    IF generated.status = "threw" THEN ScanThrow(generated.err)
    ELSE IF generated.status = "null"
    THEN ScanThrow("Failed to generate filter expression from filtersAttributes.")
    ELSE IF generated.filterExpression = "" THEN ScanThrow("Generated filterExpression is empty.")
    ELSE ScanOk([FilterExpression |-> Some(generated.filterExpression),
                 ExpressionAttributeNames |->
                     mergeAttrNames(SomeMap(generated.expressionAttributeNames), custom.extraExpAttributeNames),
                 ExpressionAttributeValues |->
                     mergeAttrValues(SomeMap(generated.expressionAttributeValues),
                                     custom.extraExpAttributeValues)])

\* the manual filterExpression path
ScanManualPath(manualFilterExpression, mergedNames, mergedValues) ==
    IF Includes(manualFilterExpression, "#") /\ ~isNonEmptyObject(mergedNames)
    THEN ScanThrow("filterExpression contains name placeholders (#) but ExpressionAttributeNames is missing.")
    ELSE IF Includes(manualFilterExpression, ":") /\ ~isNonEmptyObject(mergedValues)
    THEN ScanThrow("filterExpression contains value placeholders (:) but ExpressionAttributeValues is missing.")
    ELSE ScanOk([FilterExpression |-> Some(manualFilterExpression),
                 ExpressionAttributeNames |-> mergedNames,
                 ExpressionAttributeValues |-> mergedValues])

\* if (m && Object.keys(m).length === 0) delete ...
DeleteIfEmpty(m) == IF m.has /\ DOMAIN m.m = {} THEN NoMap ELSE m

\* no filter at all
ScanNoFilterPath(mergedNames, mergedValues) ==
    ScanOk([FilterExpression |-> None,
            ExpressionAttributeNames |-> DeleteIfEmpty(mergedNames),
            ExpressionAttributeValues |-> DeleteIfEmpty(mergedValues)])

\* filtersAttributes && filtersAttributes.length > 0
HasFilters(custom) == custom.filtersAttributes.has /\ Len(custom.filtersAttributes.arr) > 0

\* The fields copied through (TableName, IndexName, ProjectionExpression, Limit,
\* ExclusiveStartKey, ConsistentRead, Segment, TotalSegments, ReturnConsumedCapacity,
\* ReturnItemCollectionMetrics) are left out.
buildScanCommandInput(custom) ==
    IF ~customScanCommandInputSch(custom) THEN ScanThrow("ZodError")
    ELSE IF HasFilters(custom)
    THEN ScanThrow("Provide either filtersAttributes or filterExpression (not both).")
    ELSE IF HasFilters(custom)
    THEN ScanAutoPath(generateDynamoFilterAttributes(custom.filtersAttributes.arr), custom)
    ELSE IF Truthy(custom.filterExpression)
    THEN ScanManualPath(custom.filterExpression.s,
                        mergeAttrNames(custom.expressionAttributeNames, custom.extraExpAttributeNames),
                        mergeAttrValues(custom.expressionAttributeValues, custom.extraExpAttributeValues))
    ELSE ScanNoFilterPath(mergeAttrNames(custom.expressionAttributeNames, custom.extraExpAttributeNames),
                          mergeAttrValues(custom.expressionAttributeValues, custom.extraExpAttributeValues))

-----------------------------------------------------------------------------
(* Inputs of the filter compiler *)

Filter(name, type, condition, value, value2, values) ==
    [name |-> name, type |-> type, condition |-> condition,
     value |-> value, value2 |-> value2, values |-> values]

FilterTypes == {"S", "N", "BOOL", "NULL", "SS", "NS"}
ScalarTypes == {"S", "N", "BOOL", "NULL"}
SetTypes == {"SS", "NS"}

\* Filters of every condition and type, with and without their operands.
AllFilters ==
    {Filter("a", "S", c, v, None, NoArr) : c \in {"EXISTS", "NOT_EXISTS"}, v \in {None, Some("1")}}
    \cup {Filter("a", "S", c, None, Some("2"), NoArr) : c \in {"EXISTS", "NOT_EXISTS"}}
    \cup {Filter("a", "S", c, None, None, SomeArr(<<"1">>)) : c \in {"EXISTS", "NOT_EXISTS"}}
    \cup {Filter("a", t, "BEGINS_WITH", v, None, NoArr) : t \in {"S", "N"}, v \in {None, Some("ab")}}
    \cup {Filter("a", t, c, v, None, NoArr) :
            t \in ScalarTypes, c \in {"CONTAINS", "NOT_CONTAINS"}, v \in {None, Some("1"), Some("x")}}
    \cup {Filter("a", t, c, None, None, vs) :
            t \in SetTypes, c \in {"CONTAINS", "NOT_CONTAINS"},
            vs \in {NoArr, SomeArr(<<>>), SomeArr(<<"1">>), SomeArr(<<"1", "x">>),
                    SomeArr(<<"2", "1">>), SomeArr(<<"3", "1", "2">>)}}
    \cup {Filter("a", t, "BETWEEN", vv[1], vv[2], NoArr) :
            t \in FilterTypes, vv \in {<<Some("1"), Some("2")>>, <<Some("1"), None>>, <<None, Some("2")>>}}
    \cup {Filter("a", t, "BETWEEN", vv[1], vv[2], NoArr) :
            t \in {"S", "N"}, vv \in {<<Some("x"), Some("2")>>, <<Some("1"), Some("x")>>}}
    \cup {Filter("a", t, c, v, None, NoArr) :
            t \in FilterTypes, c \in Comparators, v \in {None, Some("1"), Some("x")}}
    \cup {Filter("a", "S", "SOME_UNKNOWN", Some("1"), None, NoArr)}

\* A few filters that accompany them in a list.
CoreFilters ==
    { Filter("a", "S", "EXISTS", None, None, NoArr),
      Filter("b", "N", "BETWEEN", Some("1"), Some("2"), NoArr),
      Filter("b", "SS", "CONTAINS", None, None, SomeArr(<<"1", "x">>)),
      Filter("c", "N", "EQUAL_TO", None, None, NoArr) }

\* The lists of at most maxLen filters of which at most one is not a core filter.
FilterLists(maxLen) ==
    {<<>>} \cup
    UNION { { [j \in 1..n |-> IF j = k THEN f ELSE base[j]] :
                base \in [1..n -> CoreFilters], k \in 1..n, f \in AllFilters \cup CoreFilters }
            : n \in 1..maxLen }

-----------------------------------------------------------------------------
(* The filter compiler as a state machine *)

FilterInit ==
    /\ QueryOff /\ UpdateOff /\ AliasOff /\ ScanOff /\ ParserOff /\ ConcurrentOff
    /\ filters \in FilterLists(MaxFilters)
    /\ i = 0
    /\ expressionAttributeNames = EmptyMap
    /\ expressionAttributeValues = EmptyMap
    /\ parts = <<>>
    /\ filterExpression = ""
    /\ fpc = "start"
    /\ ferr = ""

\* if (!filters || filters.length === 0) return null;
FilterEnter ==
    /\ fpc = "start"
    /\ fpc' = IF Len(filters) = 0 THEN "null" ELSE "loop"
    /\ UNCHANGED <<filters, i, expressionAttributeNames, expressionAttributeValues, parts,
                   filterExpression, ferr>>
    /\ UNCHANGED <<qvars, uvars, avars, svars, pvars, cvars>>

\* a variant of the iteration that drops a filter that fails and goes on
FilterApplySkippingFailures(it) ==
    /\ expressionAttributeNames' = it.names
    /\ expressionAttributeValues' = it.vals
    /\ parts' = IF it.ok THEN Append(parts, it.part) ELSE parts
    /\ i' = i + 1
    /\ UNCHANGED <<fpc, ferr>>

\* for (let i = 0; i < filters.length; i++) { ... }: one iteration; a throw
\* leaves the function through the catch block, which rethrows.
FilterApply(it) ==
    /\ expressionAttributeNames' = it.names
    /\ expressionAttributeValues' = it.vals
    /\ IF it.ok
       THEN /\ parts' = Append(parts, it.part)
            /\ i' = i + 1
            /\ UNCHANGED <<fpc, ferr>>
       ELSE /\ fpc' = "threw"
            /\ ferr' = it.err
            /\ UNCHANGED <<parts, i>>

FilterStep ==
    /\ fpc = "loop"
    /\ i < Len(filters)
    /\ FilterApply(FilterIteration(filters, i, expressionAttributeNames, expressionAttributeValues))
    /\ UNCHANGED <<filters, filterExpression>>
    /\ UNCHANGED <<qvars, uvars, avars, svars, pvars, cvars>>

\* return { filterExpression: parts.join(' AND '), ... }
FilterReturn ==
    /\ fpc = "loop"
    /\ i >= Len(filters)
    /\ filterExpression' = JoinParts(parts)
    /\ fpc' = "returned"
    /\ UNCHANGED <<filters, i, expressionAttributeNames, expressionAttributeValues, parts, ferr>>
    /\ UNCHANGED <<qvars, uvars, avars, svars, pvars, cvars>>

FilterNext == FilterEnter \/ FilterStep \/ FilterReturn

SpecFilter == FilterInit /\ [][FilterNext]_vars

-----------------------------------------------------------------------------
(* Inputs of the query compilers *)

QueryRequest(pKey, pKeyType, sKey, sKeyType, sKeyProp, skValue2, skValue2Type, skComparator) ==
    [pKey |-> pKey, pKeyType |-> pKeyType, pKeyProp |-> "id", sKey |-> sKey, sKeyType |-> sKeyType,
     sKeyProp |-> sKeyProp, skValue2 |-> skValue2, skValue2Type |-> skValue2Type,
     skComparator |-> skComparator]

\* the spellings of a comparator a request of the model carries: the seven of
\* dynamoComparatorSch, the verbose ones, some in other letter cases, and some
\* that are no comparator
SchemaComparators == dynamoComparatorSch

VerboseComparators ==
    {"EQUAL", "LESS_THAN", "LESS_THAN_OR_EQUAL", "GREATER_THAN", "GREATER_THAN_OR_EQUAL"}

OtherCaseComparators ==
    {"equal", "Less_Than", "less_than_or_equal", "greater_than", "Greater_Than_Or_Equal",
     "between", "Begins_With", "begins_with"}

NoComparators == {"", "LIKE", "==", "EQUALS", "BEGINS"}

ComparatorSpellings == SchemaComparators \cup VerboseComparators \cup OtherCaseComparators \cup NoComparators

PartitionKeys == {<<"u1", "S">>, <<"42", "N">>, <<"u1", "N">>, <<"u1", "B">>}

QueryRequests ==
    { QueryRequest(pk[1], pk[2], sKey, sKeyType, sKeyProp, skValue2, skValue2Type, skComparator) :
        pk \in PartitionKeys,
        sKey \in {None, Some(""), Some("doc"), Some("7")},
        sKeyType \in {None, Some("S"), Some("N")},
        sKeyProp \in {None, Some("sk")},
        skValue2 \in {None, Some("z")},
        skValue2Type \in {None, Some("S")},
        skComparator \in {None} \cup { Some(c) : c \in ComparatorSpellings } }

\* projections with reserved words in several letter cases, words that only
\* contain a reserved word, items already prefixed, empty items and spaces
Projections == {"Name,STATUS ,names", "#name, size", "a,,status ", "my name,size_x"}

QueryInputs ==
    { [projectionExpression |-> p, extraExpAttributeNames |-> en, extraExpAttributeValues |-> ev] :
        p \in {None, Some("id, name ,#size")},
        en \in {EmptyMap, Put(EmptyMap, "#sk", "other")},
        ev \in {EmptyMap, Put(EmptyMap, ":sk", JStr("extra"))} }
    \cup { [projectionExpression |-> Some(p), extraExpAttributeNames |-> EmptyMap,
            extraExpAttributeValues |-> EmptyMap] : p \in Projections }

-----------------------------------------------------------------------------
(* The query compilers as a state machine: a request is given, and either the *)
(* key condition alone is compiled or the whole query command is assembled.   *)

QueryInit ==
    /\ FilterOff /\ UpdateOff /\ AliasOff /\ ScanOff /\ ParserOff /\ ConcurrentOff
    /\ queryRequest \in QueryRequests
    /\ queryInput \in QueryInputs
    /\ qpc = "start"
    /\ keyConditionExpression = ""
    /\ commandInput = NoCommand
    /\ qerr = ""

KeyConditionApply(r) ==
    /\ qpc' = IF r.ok THEN "key-returned" ELSE "key-threw"
    /\ keyConditionExpression' = r.val
    /\ qerr' = r.err

\* a call of createKeyConditionExpression(queryRequest)
CreateKeyCondition ==
    /\ qpc = "start"
    /\ KeyConditionApply(createKeyConditionExpression(queryRequest))
    /\ UNCHANGED <<queryRequest, queryInput, commandInput>>
    /\ UNCHANGED <<fvars, uvars, avars, svars, pvars, cvars>>

BuildQueryApply(r) ==
    /\ qpc' = IF r.ok THEN "query-returned" ELSE "query-threw"
    /\ commandInput' = r.cmd
    /\ qerr' = r.err

\* a call of buildQueryCommandInput({ queryRequest, ...queryInput })
BuildQuery ==
    /\ qpc = "start"
    /\ BuildQueryApply(buildQueryCommandInput(queryRequest, queryInput))
    /\ UNCHANGED <<queryRequest, queryInput, keyConditionExpression>>
    /\ UNCHANGED <<fvars, uvars, avars, svars, pvars, cvars>>

QueryNext == CreateKeyCondition \/ BuildQuery

SpecQuery == QueryInit /\ [][QueryNext]_vars

-----------------------------------------------------------------------------
(* Inputs of buildUpdateCommandInput *)

\* Field names that are no integer indexes, so that for-in visits them in the
\* order they were inserted: an item is the sequence of its [field, value] pairs.
ItemEntries ==
    { [field |-> "name", value |-> JStr("John")],
      [field |-> "name", value |-> JUndefined],
      [field |-> "email", value |-> JStr("j@x")],
      [field |-> "name_update_1", value |-> JNum(1)],
      [field |-> "Size", value |-> JNum(5)],
      [field |-> "user-name", value |-> JStr("u")] }

RECURSIVE ItemsOfLength(_)
ItemsOfLength(n) ==
    IF n = 0 THEN {<<>>}
    ELSE { Append(item, e) : item \in { it \in ItemsOfLength(n - 1) : TRUE }, e \in ItemEntries }

DistinctFields(item) ==
    \A a, b \in 1..Len(item) : a # b => item[a].field # item[b].field

\* the items of at most maxLen fields, and the absent item
Items(maxLen) ==
    {NoArr} \cup { SomeArr(item) : item \in { it \in UNION { ItemsOfLength(n) : n \in 0..maxLen } :
                                                DistinctFields(it) } }

CallerValueKeys == {":name", ":name_update_1", ":email"}

\* the maps over a subset of the keys whose values are a caller's string or undefined
CallerValueMaps ==
    UNION { [keys -> {JStr("caller"), JUndefined}] : keys \in SUBSET CallerValueKeys }

UpdateInput(item, updateExpression, nms, extraNames, vals, extraVals) ==
    [item |-> item, updateExpression |-> updateExpression,
     expressionAttributeNames |-> nms, expressionAttributeValues |-> vals,
     extraExpAttributeNames |-> extraNames, extraExpAttributeValues |-> extraVals]

CallerNamePairs ==
    { <<NoMap, NoMap>>,
      <<SomeMap(Put(EmptyMap, "#name", "callerName")), NoMap>>,
      <<SomeMap(Put(EmptyMap, "#name", "callerName")), SomeMap(Put(EmptyMap, "#name", "extraName"))>> }

GeneratedModeInputs(maxLen) ==
    { UpdateInput(item, None, np[1], np[2], IF DOMAIN vals = {} THEN NoMap ELSE SomeMap(vals), extraVals) :
        item \in Items(maxLen), np \in CallerNamePairs, vals \in CallerValueMaps,
        extraVals \in {NoMap, SomeMap(Put(EmptyMap, ":name", JStr("extra")))} }

ExplicitModeInputs ==
    { UpdateInput(item, updateExpression, np[1], np[2], vals, NoMap) :
        item \in {NoArr, SomeArr(<<[field |-> "name", value |-> JStr("John")]>>)},
        updateExpression \in {Some(""), Some("SET name = :n")},
        np \in CallerNamePairs,
        vals \in {NoMap, SomeMap(EmptyMap), SomeMap(Put(EmptyMap, ":n", JStr("caller")))} }

UpdateInputs(maxLen) == GeneratedModeInputs(maxLen) \cup ExplicitModeInputs

-----------------------------------------------------------------------------
(* buildUpdateCommandInput as a state machine: the merge of the caller's maps *)
(* and the choice of the mode, one iteration of the for-in loop per step, and *)
(* the assembly of the command.                                               *)

UpdateInit ==
    /\ FilterOff /\ QueryOff /\ AliasOff /\ ScanOff /\ ParserOff /\ ConcurrentOff
    /\ updateInput \in UpdateInputs(MaxItemFields)
    /\ updateNames = EmptyMap
    /\ updateValues = EmptyMap
    /\ updateParts = <<>>
    /\ fieldIndex = 0
    /\ updateCommand = NoUpdateCommand
    /\ upc = "start"
    /\ uerr = ""

\* the function up to the for-in loop
UpdateEnterWith(nms, vals) ==
    /\ updateNames' = nms
    /\ updateValues' = vals
    /\ IF Truthy(updateInput.updateExpression)
       THEN /\ updateCommand' = UpdateCommandOf(updateInput.updateExpression.s, nms, vals)
            /\ upc' = "returned"
            /\ uerr' = ""
       ELSE IF ~updateInput.item.has \/ Len(updateInput.item.arr) = 0
       THEN /\ updateCommand' = NoUpdateCommand
            /\ upc' = "threw"
            /\ uerr' = "Either updateExpression or item with at least one field must be provided."
       ELSE /\ updateCommand' = NoUpdateCommand
            /\ upc' = "loop"
            /\ uerr' = ""

UpdateEnter ==
    /\ upc = "start"
    /\ UpdateEnterWith(MergedCallerNames(updateInput), MergedCallerValues(updateInput))
    /\ UNCHANGED <<updateInput, updateParts, fieldIndex>>
    /\ UNCHANGED <<fvars, qvars, avars, svars, pvars, cvars>>

\* a variant in which values is the caller's own object
\* (const values = input.expressionAttributeValues ?? {}): the assignment
\* values[valueKey] = value writes into the input
InputAfterAssignmentAliased(input, valueKey, value) ==
    [input EXCEPT !.expressionAttributeValues = SomeMap(Put(input.expressionAttributeValues.m, valueKey, value))]

\* the input after values[valueKey] = value: values is a fresh object that the
\* caller's entries were copied into, so the input is not written
InputAfterAssignment(input, valueKey, value) == input

\* one iteration of for (const field in itemRecord)
UpdateFieldWith(entry, valueKey) ==
    /\ updateParts' = Append(updateParts, entry.field \o " = " \o valueKey)
    /\ updateValues' = Put(updateValues, valueKey, entry.value)
    /\ updateInput' = InputAfterAssignment(updateInput, valueKey, entry.value)

UpdateField ==
    /\ upc = "loop"
    /\ fieldIndex < Len(updateInput.item.arr)
    /\ UpdateFieldWith(updateInput.item.arr[fieldIndex + 1],
                       ValueKeyFor(updateValues, updateInput.item.arr[fieldIndex + 1].field))
    /\ fieldIndex' = fieldIndex + 1
    /\ UNCHANGED <<updateNames, updateCommand, upc, uerr>>
    /\ UNCHANGED <<fvars, qvars, avars, svars, pvars, cvars>>

\* the function after the loop
UpdateFinishWith(cmd) ==
    /\ updateCommand' = cmd
    /\ updateNames' = IF cmd.ExpressionAttributeNames.has THEN cmd.ExpressionAttributeNames.m ELSE EmptyMap

UpdateFinish ==
    /\ upc = "loop"
    /\ fieldIndex = Len(updateInput.item.arr)
    /\ UpdateFinishWith(GeneratedCommand(
           replaceReservedKeywordsFromUpdateExp("SET " \o Join(updateParts, ", ")),
           updateNames, updateValues))
    /\ upc' = "returned"
    /\ UNCHANGED <<updateInput, updateValues, updateParts, fieldIndex, uerr>>
    /\ UNCHANGED <<fvars, qvars, avars, svars, pvars, cvars>>

UpdateNext == UpdateEnter \/ UpdateField \/ UpdateFinish

SpecUpdate == UpdateInit /\ [][UpdateNext]_vars

-----------------------------------------------------------------------------
(* replaceReservedKeywordsFromUpdateExp applied to an update expression, and  *)
(* again to its result                                                        *)

AssignmentTargets == {"name", "#name", "email", "Size", "#size", "status", "username", "name_x"}

AssignmentSigns == {" = ", "=", "  ="}

Assignments == { t \o sign \o ":v" : t \in AssignmentTargets, sign \in AssignmentSigns }

\* the update expressions of one or two assignments
UpdateExpressions ==
    { "SET " \o a : a \in Assignments } \cup { "SET " \o a \o ", " \o b : a, b \in Assignments }

AliasInit ==
    /\ FilterOff /\ QueryOff /\ UpdateOff /\ ScanOff /\ ParserOff /\ ConcurrentOff
    /\ aliasTexts \in { <<e>> : e \in UpdateExpressions }

\* a call of replaceReservedKeywordsFromUpdateExp on the last text
ApplyAlias ==
    /\ Len(aliasTexts) >= 1
    /\ Len(aliasTexts) <= MaxRewrites
    /\ aliasTexts' = Append(aliasTexts, replaceReservedKeywordsFromUpdateExp(aliasTexts[Len(aliasTexts)]))
    /\ UNCHANGED <<fvars, qvars, uvars, svars, pvars, cvars>>

AliasNext == ApplyAlias

SpecAlias == AliasInit /\ [][AliasNext]_vars

-----------------------------------------------------------------------------
(* Inputs of buildScanCommandInput *)

\* filters the schema accepts (the last one fails in the filter compiler), and
\* one it rejects
ScanFilters ==
    { Filter("a", "S", "EQUAL_TO", Some("x"), None, NoArr),
      Filter("b", "S", "EXISTS", None, None, NoArr),
      Filter("c", "N", "EQUAL_TO", Some("abc"), None, NoArr),
      Filter("d", "S", "EXISTS", Some("1"), None, NoArr) }

RECURSIVE ScanFilterLists(_)
ScanFilterLists(n) ==
    IF n = 0 THEN {<<>>}
    ELSE { Append(fs, f) : fs \in { l \in ScanFilterLists(n - 1) : TRUE }, f \in ScanFilters }

ScanInputs(maxLen) ==
    { [filtersAttributes |-> fa, filterExpression |-> fe,
       expressionAttributeNames |-> mn, expressionAttributeValues |-> mv,
       extraExpAttributeNames |-> en, extraExpAttributeValues |-> ev] :
        fa \in {NoArr} \cup { SomeArr(fs) : fs \in UNION { ScanFilterLists(n) : n \in 0..maxLen } },
        fe \in {None, Some(""), Some("#a = :a"), Some("a = b"), Some("#a = b")},
        mn \in {NoMap, SomeMap(EmptyMap), SomeMap(Put(EmptyMap, "#a", "a"))},
        mv \in {NoMap, SomeMap(EmptyMap), SomeMap(Put(EmptyMap, ":a", JStr("1")))},
        en \in {NoMap, SomeMap(Put(EmptyMap, "#f0", "extra")), SomeMap(Put(EmptyMap, "#a", "extra"))},
        ev \in {NoMap, SomeMap(Put(EmptyMap, ":a", JStr("extra")))} }

-----------------------------------------------------------------------------
(* buildScanCommandInput as a state machine: one call *)

ScanInit ==
    /\ FilterOff /\ QueryOff /\ UpdateOff /\ AliasOff /\ ParserOff /\ ConcurrentOff
    /\ scanInput \in ScanInputs(MaxFilters)
    /\ scanCommand = NoScanCommand
    /\ spc = "start"
    /\ serr = ""

BuildScanApply(r) ==
    /\ spc' = IF r.ok THEN "returned" ELSE "threw"
    /\ scanCommand' = r.cmd
    /\ serr' = r.err

\* a call of buildScanCommandInput(scanInput)
BuildScan ==
    /\ spc = "start"
    /\ BuildScanApply(buildScanCommandInput(scanInput))
    /\ UNCHANGED scanInput
    /\ UNCHANGED <<fvars, qvars, uvars, avars, pvars, cvars>>

ScanNext == BuildScan

SpecScan == ScanInit /\ [][ScanNext]_vars

-----------------------------------------------------------------------------
(* extractQueryReqFromParams: query parameters and defaults to a query request *)

\* o[key] of a JavaScript object: undefined when the object has no such key
ObjGet(o, key) == IF key \in DOMAIN o THEN o[key] ELSE JUndefined

JsTruthy(v) ==
    IF v.k = "string" THEN v.s # ""
    ELSE IF v.k = "number" THEN v.n # 0
    ELSE v.k \notin {"undefined", "null", "NaN"}

\* a || b
JsOr(a, b) == IF JsTruthy(a) THEN a ELSE b

\* a ?? b
Nullish(a, b) == IF a.k \in {"undefined", "null"} THEN b ELSE a

\* Number(v) of a value that may already be a number
ToNumber(v) == IF v.k = "number" THEN v ELSE Number(v)

\* what a field schema that wants a string sees: a value that is no string
\* fails z.string() and the enums as the empty string does
StrReq(v) == IF v.k = "string" THEN v.s ELSE ""

\* an optional field: undefined stays undefined
StrOpt(v) == IF v.k = "string" THEN Some(v.s) ELSE None

\* the fields of the object handed to the schema (skValue2Type, lastEvaluatedKey
\* and sorting are passed by no caller of the model and are left out)
RequestOf(query) ==
    [pKey |-> StrReq(ObjGet(query, "pKey")), pKeyType |-> StrReq(ObjGet(query, "pKeyType")),
     pKeyProp |-> StrReq(ObjGet(query, "pKeyProp")),
     sKey |-> StrOpt(ObjGet(query, "sKey")), sKeyType |-> StrOpt(ObjGet(query, "sKeyType")),
     sKeyProp |-> StrOpt(ObjGet(query, "sKeyProp")), skValue2 |-> StrOpt(ObjGet(query, "skValue2")),
     skValue2Type |-> StrOpt(ObjGet(query, "skValue2Type")),
     skComparator |-> StrOpt(ObjGet(query, "skComparator"))]

\* z.coerce.number().int().positive() on a value that is not undefined
LimitChecked(n) ==
    IF n.k = "number" /\ n.n > 0 THEN [ok |-> TRUE, has |-> TRUE, n |-> n.n]
    ELSE [ok |-> FALSE, has |-> FALSE, n |-> 0]

\* limit: z.coerce.number().int().positive().optional()
limitSch(v) ==
    IF v.k = "undefined" THEN [ok |-> TRUE, has |-> FALSE, n |-> 0] ELSE LimitChecked(ToNumber(v))

ParsedData(d, indexName, limit) ==
    [pKey |-> d.pKey, pKeyType |-> d.pKeyType, pKeyProp |-> d.pKeyProp, sKey |-> d.sKey,
     sKeyType |-> d.sKeyType, sKeyProp |-> d.sKeyProp, skValue2 |-> d.skValue2,
     skValue2Type |-> d.skValue2Type, skComparator |-> d.skComparator,
     indexName |-> indexName, limit |-> [has |-> limit.has, n |-> limit.n]]

\* parsedQuery.data, or the throw of QueryParseError
SafeParsed(schema, indexName, limit) ==
    IF schema.success /\ limit.ok
    THEN [ok |-> TRUE, data |-> ParsedData(schema.data, indexName, limit)]
    ELSE [ok |-> FALSE, data |-> NoParsedQuery]

safeParseQuery(query) ==
    SafeParsed(dynamoQueryRequestSch(RequestOf(query)),
               qpStringOpt(StrOpt(ObjGet(query, "indexName"))),
               limitSch(ObjGet(query, "limit")))

\* typeof queryParams.pKey === 'string' && queryParams.pKey.trim().length > 0
isPKeyExists(queryParams) ==
    ObjGet(queryParams, "pKey").k = "string" /\ Len(Trim(ObjGet(queryParams, "pKey").s)) > 0

FilledKeys ==
    {"pKey", "pKeyType", "pKeyProp", "sKey", "sKeyType", "sKeyProp", "skValue2", "skComparator",
     "lastEvaluatedKey", "sorting"}

\* the object literal of the branch "index matches the default index", no pKey
FilledFromDefaults(queryParams, defaults) ==
    [key \in FilledKeys \cup {"indexName", "limit"} |->
        IF key = "indexName" THEN ObjGet(defaults, "indexName")
        ELSE IF key = "limit"
        THEN ToNumber(JsOr(JsOr(ObjGet(queryParams, "limit"), ObjGet(defaults, "limit")), JStr("10")))
        ELSE JsOr(ObjGet(queryParams, key), ObjGet(defaults, key))]

\* the routing both copies of the function share, given the normalized
\* parameters and the object the branch "no index, no pKey" validates
RouteQueryParams(queryParams, defaults, mergedWithDefaults) ==
    IF ~JsTruthy(ObjGet(queryParams, "indexName"))
    THEN IF isPKeyExists(queryParams) THEN safeParseQuery(queryParams)
         ELSE safeParseQuery(mergedWithDefaults)
    ELSE IF ObjGet(queryParams, "indexName") = ObjGet(defaults, "indexName")
    THEN IF isPKeyExists(queryParams)
         THEN safeParseQuery(Put(queryParams, "indexName", ObjGet(defaults, "indexName")))
         ELSE safeParseQuery(FilledFromDefaults(queryParams, defaults))
    ELSE safeParseQuery(queryParams)

\* utils/query-request/query-request-parser.ts:
\* { ...raw, indexName: raw.index ?? raw.indexName }
NormalizedIndexFirst(raw) ==
    Put(raw, "indexName", Nullish(ObjGet(raw, "index"), ObjGet(raw, "indexName")))

extractQueryReqFromParams(params, defaults) ==
    RouteQueryParams(NormalizedIndexFirst(params.m), defaults,
                     Spread(defaults, NormalizedIndexFirst(params.m)))

\* the second copy of the function (part_001):
\* { ...raw, indexName: raw.indexName ?? raw.index }
NormalizedIndexNameFirst(raw) ==
    Put(raw, "indexName", Nullish(ObjGet(raw, "indexName"), ObjGet(raw, "index")))

extractQueryReqFromParams_part_001(params, defaults) ==
    RouteQueryParams(NormalizedIndexNameFirst(params.m), defaults,
                     Put(Spread(defaults, NormalizedIndexNameFirst(params.m)),
                         "indexName", ObjGet(defaults, "indexName")))

-----------------------------------------------------------------------------
(* extractQueryReqFromParams: inputs and state machine *)

\* obj with key set to the text of o, when o is present
WithField(obj, key, o) == IF o.has THEN Put(obj, key, JStr(o.s)) ELSE obj

\* the sort-key part of a request: none, a complete "=" condition, or a lone sKey
SortKeyFields ==
    {EmptyMap,
     [key \in {"sKey", "sKeyType", "sKeyProp", "skComparator"} |->
        IF key = "sKey" THEN JStr("d") ELSE IF key = "sKeyType" THEN JStr("S")
        ELSE IF key = "sKeyProp" THEN JStr("sk") ELSE JStr("=")]}

\* event.queryStringParameters: null, or an object of strings
ParamObjects ==
    {NoMap} \cup
    { SomeMap(Spread(sk,
        WithField(WithField(WithField(WithField(WithField(WithField(EmptyMap,
            "index", index), "indexName", indexName), "pKey", pKey), "pKeyType", pKeyType),
            "pKeyProp", pKeyProp), "limit", limit))) :
        index \in {None, Some("USERS"), Some("ORDERS")},
        indexName \in {None, Some(""), Some("USERS"), Some("ORDERS")},
        pKey \in {None, Some(""), Some(" "), Some("u9 ")},
        pKeyType \in {None, Some("S"), Some("X")},
        pKeyProp \in {None, Some("userId")},
        limit \in {None, Some("50"), Some("0")},
        sk \in {EmptyMap, Put(EmptyMap, "sKey", JStr("k"))} }

\* the endpoint's default request: it satisfies the schema
DefaultRequests ==
    { Spread(sk,
        Spread(IF limit.has THEN Put(EmptyMap, "limit", JNum(20)) ELSE EmptyMap,
            WithField(WithField(WithField(WithField(EmptyMap,
                "indexName", indexName), "pKey", Some("DEFAULT")), "pKeyType", Some("S")),
                "pKeyProp", Some("userId")))) :
        indexName \in {None, Some("USERS")},
        limit \in {None, Some("20")},
        sk \in SortKeyFields }

ParserInit ==
    /\ FilterOff /\ QueryOff /\ UpdateOff /\ AliasOff /\ ScanOff /\ ConcurrentOff
    /\ qParams \in ParamObjects
    /\ defaultQry \in DefaultRequests
    /\ parsedQuery = NoParsedQuery
    /\ ppc = "start"

ExtractQueryReqApply(r) ==
    /\ ppc' = IF r.ok THEN "returned" ELSE "threw"
    /\ parsedQuery' = r.data

\* a call of extractQueryReqFromParams of utils/query-request/query-request-parser.ts
ExtractQueryReq ==
    /\ ppc = "start"
    /\ ExtractQueryReqApply(extractQueryReqFromParams(qParams, defaultQry))
    /\ UNCHANGED <<qParams, defaultQry>>
    /\ UNCHANGED <<fvars, qvars, uvars, avars, svars, cvars>>

\* a call of the second copy of extractQueryReqFromParams
ExtractQueryReqPart001 ==
    /\ ppc = "start"
    /\ ExtractQueryReqApply(extractQueryReqFromParams_part_001(qParams, defaultQry))
    /\ UNCHANGED <<qParams, defaultQry>>
    /\ UNCHANGED <<fvars, qvars, uvars, avars, svars, cvars>>

ParserNext == ExtractQueryReq \/ ExtractQueryReqPart001

SpecParser == ParserInit /\ [][ParserNext]_vars

-----------------------------------------------------------------------------
(* Two compilation calls whose steps interleave *)

\* a call of generateDynamoFilterAttributes(fs), before its first step
FilterCall(fs) ==
    [kind |-> "filter", filters |-> fs, text |-> "", i |-> 0, names |-> EmptyMap, vals |-> EmptyMap,
     parts |-> <<>>, output |-> "", pc |-> "start", err |-> ""]

\* a call of replaceReservedKeywordsFromUpdateExp(text), before its step
AliasCall(text) ==
    [kind |-> "alias", filters |-> <<>>, text |-> text, i |-> 0, names |-> EmptyMap, vals |-> EmptyMap,
     parts |-> <<>>, output |-> "", pc |-> "start", err |-> ""]

\* the lists of core filters of length n
RECURSIVE CoreFilterLists(_)
CoreFilterLists(n) ==
    IF n = 0 THEN {<<>>}
    ELSE { Append(fs, f) : fs \in { l \in CoreFilterLists(n - 1) : TRUE }, f \in CoreFilters }

CallInputs(maxLen) ==
    { FilterCall(fs) : fs \in UNION { CoreFilterLists(n) : n \in 0..maxLen } }
    \cup { AliasCall(e) : e \in {"SET name = :v", "SET Size=:v, email = :v", "SET username = :v"} }

\* a variant with the three locals hoisted out of the function: every call
\* works on those of the first
CallLocalsHoisted(cs, c) == cs[1]

\* const expressionAttributeNames = {}, expressionAttributeValues = {}, parts = []
\* are created inside the function: each call works on its own
CallLocals(cs, c) == cs[c]

\* if (!filters || filters.length === 0) return null;
EnteredCall(call) == [call EXCEPT !.pc = IF Len(call.filters) = 0 THEN "null" ELSE "loop"]

\* one iteration of the loop of a call
IteratedCall(call, it) ==
    IF it.ok
    THEN [call EXCEPT !.names = it.names, !.vals = it.vals, !.parts = Append(call.parts, it.part),
                      !.i = call.i + 1]
    ELSE [call EXCEPT !.names = it.names, !.vals = it.vals, !.pc = "threw", !.err = it.err]

\* return { filterExpression: parts.join(' AND '), ... }
ReturnedCall(call) == [call EXCEPT !.output = JoinParts(call.parts), !.pc = "returned"]

\* String.prototype.replace with a global regex: one step of the engine
ReplacedCall(call) ==
    [call EXCEPT !.output = replaceReservedKeywordsFromUpdateExp(call.text), !.pc = "returned"]

ConcurrentInit ==
    /\ FilterOff /\ QueryOff /\ UpdateOff /\ AliasOff /\ ScanOff /\ ParserOff
    /\ calls \in { <<a, b>> : a, b \in CallInputs(MaxFilters) }
    /\ regexLastIndex = 0

CallEnter ==
    \E c \in DOMAIN calls :
        /\ calls[c].kind = "filter"
        /\ calls[c].pc = "start"
        /\ calls' = [calls EXCEPT ![c] = EnteredCall(calls[c])]
        /\ UNCHANGED regexLastIndex
        /\ UNCHANGED <<fvars, qvars, uvars, avars, svars, pvars>>

CallStep ==
    \E c \in DOMAIN calls :
        /\ calls[c].pc = "loop"
        /\ calls[c].i < Len(calls[c].filters)
        /\ calls' = [calls EXCEPT ![c] =
                IteratedCall(calls[c],
                             FilterIteration(calls[c].filters, calls[c].i,
                                             CallLocals(calls, c).names, CallLocals(calls, c).vals))]
        /\ UNCHANGED regexLastIndex
        /\ UNCHANGED <<fvars, qvars, uvars, avars, svars, pvars>>

CallReturn ==
    \E c \in DOMAIN calls :
        /\ calls[c].pc = "loop"
        /\ calls[c].i >= Len(calls[c].filters)
        /\ calls' = [calls EXCEPT ![c] = ReturnedCall(calls[c])]
        /\ UNCHANGED regexLastIndex
        /\ UNCHANGED <<fvars, qvars, uvars, avars, svars, pvars>>

\* replace() sets lastIndex of a global regex to 0 before it searches and
\* leaves it at 0
CallReplace ==
    \E c \in DOMAIN calls :
        /\ calls[c].kind = "alias"
        /\ calls[c].pc = "start"
        /\ calls' = [calls EXCEPT ![c] = ReplacedCall(calls[c])]
        /\ regexLastIndex' = 0
        /\ UNCHANGED <<fvars, qvars, uvars, avars, svars, pvars>>

ConcurrentNext == CallEnter \/ CallStep \/ CallReturn \/ CallReplace

SpecConcurrent == ConcurrentInit /\ [][ConcurrentNext]_vars

-----------------------------------------------------------------------------
(* The two assemblers that merge extras, side by side: a call of one of them *)

AssemblersInit == QueryInit \/ ScanInit

AssemblersNext == QueryNext \/ ScanNext

SpecAssemblers == AssemblersInit /\ [][AssemblersNext]_vars

-----------------------------------------------------------------------------
(* Helpers of the properties *)

Reverse(seq) == [j \in 1..Len(seq) |-> seq[Len(seq) + 1 - j]]

\* The fragments of an expression separated by " AND " outside parentheses.
ParenDepth(s, p) ==
    Cardinality({q \in 1..(p - 1) : Char(s, q) = "("}) - Cardinality({q \in 1..(p - 1) : Char(s, q) = ")"})

\* the positions at which a top-level " AND " starts
TopLevelAnds(s) ==
    { p \in 1..(Len(s) - 4) : SubSeq(s, p, p + 4) = " AND " /\ ParenDepth(s, p) = 0 }

\* where the k-th fragment starts and ends, ands being the positions of the separators
FragmentStart(ands, k) ==
    IF k = 1 THEN 1 ELSE 5 + (CHOOSE p \in ands : Cardinality({q \in ands : q < p}) = k - 2)

FragmentEnd(s, ands, k) ==
    IF k = Cardinality(ands) + 1 THEN Len(s)
    ELSE (CHOOSE p \in ands : Cardinality({q \in ands : q < p}) = k - 1) - 1

FragmentsBetween(s, ands) ==
    [k \in 1..(Cardinality(ands) + 1) |-> SubSeq(s, FragmentStart(ands, k), FragmentEnd(s, ands, k))]

TopLevelFragments(s) == FragmentsBetween(s, TopLevelAnds(s))

\* The fragment a filter renders at index idx, taken alone.
FragmentAt(filter, idx) == CompileFilter(filter, idx, EmptyMap).part

HasOperand(filter) == filter.value.has \/ filter.value2.has \/ filter.values.has

-----------------------------------------------------------------------------
(* Properties of the filter compiler *)

\* C1: a successful compilation of n filters returns a name map whose keys are
\* exactly #f0 .. #f{n-1}, #f{j} mapping to the name of the j-th filter; no
\* token is shared, also when names repeat; compiling the reversed list makes
\* #f0 refer to the previously last filter.
C1_NameTokensByIndex ==
    fpc = "returned" =>
        /\ DOMAIN expressionAttributeNames = {"#f" \o ToString(j) : j \in 0..(Len(filters) - 1)}
        /\ Cardinality(DOMAIN expressionAttributeNames) = Len(filters)
        /\ \A j \in 0..(Len(filters) - 1) :
               expressionAttributeNames["#f" \o ToString(j)] = filters[j + 1].name
        /\ generateDynamoFilterAttributes(Reverse(filters)).status = "returned"
        /\ generateDynamoFilterAttributes(Reverse(filters)).expressionAttributeNames["#f0"]
               = filters[Len(filters)].name

\* C1 witness: two different filters on the same attribute name have compiled.
C1_Witness ==
    /\ fpc = "returned"
    /\ Len(filters) = 2
    /\ filters[1].name = filters[2].name
    /\ filters[1] # filters[2]

\* C2: the returned expression is the per-filter fragments joined by " AND "
\* in input order: it has as many top-level fragments as there are filters
\* (the AND inside a BETWEEN fragment is within parentheses), and the k-th
\* top-level fragment is the fragment of the k-th filter.
C2_AndJoinedInOrder ==
    fpc = "returned" =>
        /\ Len(TopLevelFragments(filterExpression)) = Len(filters)
        /\ \A k \in 1..Len(filters) :
               TopLevelFragments(filterExpression)[k] = FragmentAt(filters[k], k - 1)

\* C2 witness: a list with a BETWEEN filter and another filter has compiled.
C2_Witness ==
    /\ fpc = "returned"
    /\ Len(filters) = 2
    /\ \E k \in 1..2 : filters[k].condition = "BETWEEN"
    /\ \E k \in 1..2 : filters[k].condition # "BETWEEN"

\* C3 (as claimed): an EXISTS or NOT_EXISTS filter that carries an operand
\* makes the compilation fail, so no list holding one is ever returned.
C3_ExistsOperandRejected ==
    (\E k \in 1..Len(filters) :
        filters[k].condition \in {"EXISTS", "NOT_EXISTS"} /\ HasOperand(filters[k]))
    => fpc # "returned"

\* C4 (as claimed): a CONTAINS filter of a scalar type without value makes the
\* compilation fail; with a value it renders (contains(#f{i}, :f{i}v)) and
\* the single value token :f{i}v.
C4_ContainsScalarRequiresValue ==
    \A k \in 1..Len(filters) :
        (filters[k].condition = "CONTAINS" /\ filters[k].type \in ScalarTypes) =>
            /\ ~filters[k].value.has => fpc # "returned"
            /\ (filters[k].value.has /\ fpc = "returned") =>
                   /\ parts[k] = "(contains(#f" \o ToString(k - 1) \o ", :f" \o ToString(k - 1) \o "v))"
                   /\ (":f" \o ToString(k - 1) \o "v") \in DOMAIN expressionAttributeValues

-----------------------------------------------------------------------------
(* Properties of the query compilers *)

\* The spellings of the model by the comparator they spell, as listed in the
\* documentation of getOperatorSymbolByKey ("Supported operations").
SpellingClasses ==
    { {"=", "EQUAL", "equal"},
      {"<", "LESS_THAN", "Less_Than"},
      {"<=", "LESS_THAN_OR_EQUAL", "less_than_or_equal"},
      {">", "GREATER_THAN", "greater_than"},
      {">=", "GREATER_THAN_OR_EQUAL", "Greater_Than_Or_Equal"},
      {"BETWEEN", "between"},
      {"BEGINS_WITH", "Begins_With", "begins_with"} }

EqualitySpellings == {"=", "EQUAL", "equal"}

KeyConditionDone == qpc \in {"key-returned", "key-threw"}
QueryDone == qpc \in {"query-returned", "query-threw"}

\* the call of createKeyConditionExpression in the state gave the outcome r
SameKeyCondition(r) == r.ok = (qpc = "key-returned") /\ r.val = keyConditionExpression

\* C5: a query whose sort-key comparator is BEGINS_WITH (and that passes no
\* extra values) is assembled with the key condition
\* '#pk = :pk AND begins_with(#sk, :skValue2)' and a value map that contains
\* :skValue2 and does not contain :sk.
C5_BeginsWithValueMap ==
    (QueryDone /\ queryRequest.skComparator = Some("BEGINS_WITH")
               /\ queryRequest.pKeyType = "S"
               /\ queryInput.extraExpAttributeValues = EmptyMap)
    => /\ qpc = "query-returned"
       /\ commandInput.KeyConditionExpression = "#pk = :pk AND begins_with(#sk, :skValue2)"
       /\ ":skValue2" \in DOMAIN commandInput.ExpressionAttributeValues
       /\ ":sk" \notin DOMAIN commandInput.ExpressionAttributeValues

\* C6 (as stated): with a sort key present, a comparator spelling that is not
\* recognized degrades to equality: createKeyConditionExpression returns
\* '#pk = :pk AND #sk = :sk' and raises no error.
C6_UnrecognizedDegradesToEquality ==
    (KeyConditionDone /\ Truthy(queryRequest.sKey)
                      /\ queryRequest.skComparator.has
                      /\ queryRequest.skComparator.s \in NoComparators)
    => (qpc = "key-returned" /\ keyConditionExpression = "#pk = :pk AND #sk = :sk")

\* C6 (amended): with a sort key present, a comparator spelling that is not
\* recognized makes createKeyConditionExpression throw 'Invalid operation key:
\* <spelling>' and return nothing; the equality form '#pk = :pk AND #sk = :sk'
\* is returned exactly when the comparator is absent or spelled '=' or EQUAL
\* (in any letter case).
C6_UnrecognizedThrows ==
    (KeyConditionDone /\ Truthy(queryRequest.sKey))
    => /\ (queryRequest.skComparator.has /\ queryRequest.skComparator.s \in NoComparators)
             => /\ qpc = "key-threw"
                /\ qerr = "Invalid operation key: " \o queryRequest.skComparator.s
                /\ keyConditionExpression = ""
       /\ (qpc = "key-returned" /\ keyConditionExpression = "#pk = :pk AND #sk = :sk")
             <=> (~queryRequest.skComparator.has \/ queryRequest.skComparator.s \in EqualitySpellings)

C6_Witness ==
    /\ qpc = "key-threw"
    /\ Truthy(queryRequest.sKey)
    /\ queryRequest.skComparator = Some("LIKE")
    /\ qerr = "Invalid operation key: LIKE"

\* every other spelling of the comparator of the request gives the outcome in the state
SpellingsAgree ==
    \A cls \in SpellingClasses :
        queryRequest.skComparator.s \in cls
        => \A other \in cls :
               SameKeyCondition(createKeyConditionExpression(
                   [queryRequest EXCEPT !.skComparator = Some(other)]))

-----------------------------------------------------------------------------
(* Properties of buildUpdateCommandInput *)

GeneratedMode == ~Truthy(updateInput.updateExpression)

EndsWith(s, suffix) == Len(s) >= Len(suffix) /\ SubSeq(s, Len(s) - Len(suffix) + 1, Len(s)) = suffix

\* the value entries the caller supplied: those of expressionAttributeValues,
\* and over them those of extraExpAttributeValues
CallerSuppliedValues ==
    Spread(IF updateInput.expressionAttributeValues.has THEN updateInput.expressionAttributeValues.m
           ELSE EmptyMap,
           IF updateInput.extraExpAttributeValues.has THEN updateInput.extraExpAttributeValues.m
           ELSE EmptyMap)

\* :f_update_n for the smallest n >= 1 that is no key of the map m
NextFreeToken(m, f) ==
    ":" \o f \o "_update_" \o ToString(
        CHOOSE n \in 1..(Cardinality(DOMAIN m) + 1) :
            /\ (":" \o f \o "_update_" \o ToString(n)) \notin DOMAIN m
            /\ \A k \in 1..(n - 1) : (":" \o f \o "_update_" \o ToString(k)) \in DOMAIN m)

\* C8: in the generated mode no value entry of the caller is overwritten: the
\* returned ExpressionAttributeValues holds the caller's value at every key of
\* the caller's value maps; and a (first) item field f whose token :f is a key
\* of the caller's maps is assigned the next free :f_update_n, which the
\* update expression references.
C8_CallerValuesKept ==
    (upc = "returned" /\ GeneratedMode)
    => /\ \A k \in DOMAIN CallerSuppliedValues :
             /\ updateCommand.ExpressionAttributeValues.has
             /\ k \in DOMAIN updateCommand.ExpressionAttributeValues.m
             /\ updateCommand.ExpressionAttributeValues.m[k] = CallerSuppliedValues[k]
       /\ (":" \o updateInput.item.arr[1].field) \in DOMAIN CallerSuppliedValues
             => /\ updateParts[1] = updateInput.item.arr[1].field \o " = "
                                    \o NextFreeToken(CallerSuppliedValues, updateInput.item.arr[1].field)
                /\ Len(updateInput.item.arr) = 1
                      => EndsWith(updateCommand.UpdateExpression,
                                  " = " \o NextFreeToken(CallerSuppliedValues, updateInput.item.arr[1].field))

-----------------------------------------------------------------------------
(* Properties of the reserved-word aliasing *)

\* the expressions of the model whose assignment targets are all name placeholders
AliasedExpressions ==
    { "SET " \o t \o sign \o ":v" : t \in {"#name", "#size"}, sign \in AssignmentSigns }

\* C9: the aliasing of an update expression never double-prefixes: an
\* expression whose assignment target is already a name placeholder
\* ('#name = :v') is left unchanged, and applying the rewrite twice gives the
\* same text as applying it once.
C9_AliasingIdempotent ==
    /\ (Len(aliasTexts) >= 2 /\ aliasTexts[1] \in AliasedExpressions) => aliasTexts[2] = aliasTexts[1]
    /\ Len(aliasTexts) >= 3 => aliasTexts[3] = aliasTexts[2]

-----------------------------------------------------------------------------
(* Properties of buildScanCommandInput *)

NotBothMessage == "Provide either filtersAttributes or filterExpression (not both)."

\* the call returned the compiled filter merged with the extras
ReturnedCompiled(generated) ==
    /\ spc = "returned"
    /\ scanCommand.FilterExpression = Some(generated.filterExpression)
    /\ scanCommand.ExpressionAttributeNames
           = SomeMap(Spread(generated.expressionAttributeNames, scanInput.extraExpAttributeNames.m))
    /\ scanCommand.ExpressionAttributeValues
           = SomeMap(Spread(generated.expressionAttributeValues, scanInput.extraExpAttributeValues.m))

\* C10: given a non-empty filtersAttributes list (that the schema accepts and
\* the filter compiler compiles) and no manual filterExpression,
\* buildScanCommandInput returns a command whose FilterExpression is the
\* compiler's expression and whose maps are the compiler's maps merged with
\* the extras; the 'not both' error is raised only when both filtersAttributes
\* and filterExpression are provided.
C10_ScanCompilesFilters ==
    /\ (spc \in {"returned", "threw"}
           /\ HasFilters(scanInput)
           /\ ~scanInput.filterExpression.has
           /\ customScanCommandInputSch(scanInput)
           /\ generateDynamoFilterAttributes(scanInput.filtersAttributes.arr).status = "returned")
       => ReturnedCompiled(generateDynamoFilterAttributes(scanInput.filtersAttributes.arr))
    /\ (spc = "threw" /\ serr = NotBothMessage)
       => (HasFilters(scanInput) /\ scanInput.filterExpression.has)

-----------------------------------------------------------------------------
(* Properties of buildQueryCommandInput over the requests of the schema *)

\* the request is one dynamoQueryRequestSch accepts and hands out unchanged
SchemaAccepted(r) == dynamoQueryRequestSch(r).success /\ dynamoQueryRequestSch(r).data = r

\* C11: buildQueryCommandInput never throws: for every query request accepted
\* by dynamoQueryRequestSch (every key type S, N, B and every comparator of
\* the schema's enumeration) it returns a query command object.
C11_BuildQueryNeverThrows ==
    (QueryDone /\ SchemaAccepted(queryRequest)) => qpc = "query-returned"

-----------------------------------------------------------------------------
(* Properties of the filter compiler: failures and fragments *)

\* the filter at position k (1-based) fails when compiled at its index
FailsAlone(fs, k) == ~CompileFilter(fs[k], k - 1, EmptyMap).ok

\* C12: if any filter of the list fails validation or coercion, the call
\* raises an error and returns no expression and no maps, also when filters
\* at lower indexes had compiled; a failure never ends in a partial result or
\* in null. The error is the one of the first failing filter.
C12_FailureAbortsWhole ==
    /\ (\E k \in 1..Len(filters) : FailsAlone(filters, k)) => fpc \notin {"returned", "null"}
    /\ fpc = "threw" =>
          /\ filterExpression = ""
          /\ FailsAlone(filters, i + 1)
          /\ \A k \in 1..i : ~FailsAlone(filters, k)
          /\ ferr = CompileFilter(filters[i + 1], i, EmptyMap).err
          /\ ferr # ""
          /\ generateDynamoFilterAttributes(filters).status = "threw"

\* C12 witness: the second filter failed after the first had compiled and
\* stored a value.
C12_Witness ==
    /\ fpc = "threw"
    /\ i = 1
    /\ Len(parts) = 1
    /\ expressionAttributeValues # EmptyMap
    /\ filterExpression = ""

\* the filters at positions 1..i have compiled; on a throw i is the index
\* (0-based) of the filter that failed
Compiled(k) == i >= k
FailedAt(k) == fpc = "threw" /\ i = k - 1

NameTok(k) == "#f" \o ToString(k - 1)
ValueTok(k, suffix) == ":f" \o ToString(k - 1) \o suffix

\* the value tokens of the map that belong to the filter at position k
ValueKeysOf(k) == { key \in DOMAIN expressionAttributeValues : StartsWith(key, ":f" \o ToString(k - 1)) }

OperatorOf ==
    [c \in Comparators |->
        CASE c = "EQUAL_TO" -> "="
          [] c = "NOT_EQUAL_TO" -> "<>"
          [] c = "LESS_THAN" -> "<"
          [] c = "LESS_THAN_OR_EQUAL_TO" -> "<="
          [] c = "GREATER_THAN" -> ">"
          [] c = "GREATER_THAN_OR_EQUAL_TO" -> ">="]

\* C13: for a filter at index i whose condition is one of the six comparators:
\* a string-set or number-set type fails the compilation, with or without a
\* value; otherwise an absent value fails it; otherwise, the value being
\* coerced (a coercion failure is the only other way to fail), the fragment is
\* exactly (#f{i} op :f{i}v), op being = <> < <= > >=, and the value map gains
\* exactly the one entry :f{i}v holding the coerced value.
C13_ComparatorFragment ==
    \A k \in 1..Len(filters) :
        filters[k].condition \in Comparators =>
            /\ filters[k].type \in SetTypes =>
                  /\ ~Compiled(k)
                  /\ FailedAt(k) => ferr = "Comparator \"" \o filters[k].condition
                                             \o "\" is not supported for " \o filters[k].type
                                             \o "; use CONTAINS/NOT_CONTAINS"
            /\ (filters[k].type \notin SetTypes /\ ~filters[k].value.has) =>
                  /\ ~Compiled(k)
                  /\ FailedAt(k) => ferr = filters[k].condition \o " requires value for filter["
                                             \o ToString(k - 1) \o "]"
            /\ (filters[k].type \notin SetTypes /\ filters[k].value.has) =>
                  /\ FailedAt(k) => /\ ~parseValueByType(filters[k].type, JStr(filters[k].value.s)).ok
                                    /\ ferr = parseValueByType(filters[k].type, JStr(filters[k].value.s)).err
                                    /\ ValueKeysOf(k) = {}
                  /\ Compiled(k) =>
                        /\ parseValueByType(filters[k].type, JStr(filters[k].value.s)).ok
                        /\ parts[k] = "(" \o NameTok(k) \o " " \o OperatorOf[filters[k].condition]
                                          \o " " \o ValueTok(k, "v") \o ")"
                        /\ ValueKeysOf(k) = {ValueTok(k, "v")}
                        /\ expressionAttributeValues[ValueTok(k, "v")]
                              = parseValueByType(filters[k].type, JStr(filters[k].value.s)).val

\* C13 witness: a numeric NOT_EQUAL_TO filter at index 1 has compiled.
C13_Witness ==
    /\ fpc = "returned"
    /\ Len(filters) = 2
    /\ filters[2].condition = "NOT_EQUAL_TO"
    /\ filters[2].type = "N"
    /\ parts[2] = "(#f1 <> :f1v)"
    /\ expressionAttributeValues[":f1v"] = JNum(1)

\* the contains calls of the set path of the filter at position k, in input order
ContainsCalls(k) ==
    [j \in 1..Len(filters[k].values.arr) |->
        "contains(" \o NameTok(k) \o ", " \o ValueTok(k, "vs" \o ToString(j - 1)) \o ")"]

SetElementsCoerce(k) ==
    \A j \in 1..Len(filters[k].values.arr) :
        parseSetElement(filters[k].type, JStr(filters[k].values.arr[j])).ok

\* every element of the filter at position k has its own token, holding the coerced element
SetTokensInOrder(k) ==
    /\ ValueKeysOf(k) = { ValueTok(k, "vs" \o ToString(j - 1)) : j \in 1..Len(filters[k].values.arr) }
    /\ \A j \in 1..Len(filters[k].values.arr) :
           expressionAttributeValues[ValueTok(k, "vs" \o ToString(j - 1))]
               = parseSetElement(filters[k].type, JStr(filters[k].values.arr[j])).val

HasNoValues(f) == ~f.values.has \/ Len(f.values.arr) = 0

\* C14: a CONTAINS filter at index i on a string-set or number-set type with
\* k >= 1 values (each of them coerced, a coercion failure being the only way
\* to fail) produces one value token :f{i}vs{j} per element j in input order;
\* with k = 1 the fragment is (contains(#f{i}, :f{i}vs0)) in a single pair of
\* parentheses, with k >= 2 the OR-joined contains calls in double
\* parentheses; an empty or missing values list fails the compilation.
C14_ContainsSetFragment ==
    \A k \in 1..Len(filters) :
        (filters[k].condition = "CONTAINS" /\ filters[k].type \in SetTypes) =>
            /\ HasNoValues(filters[k]) =>
                  /\ ~Compiled(k)
                  /\ FailedAt(k) => ferr = "CONTAINS with " \o filters[k].type
                                             \o " requires values[] (non-empty) for filter["
                                             \o ToString(k - 1) \o "]"
            /\ ~HasNoValues(filters[k]) =>
                  /\ FailedAt(k) => ~SetElementsCoerce(k)
                  /\ Compiled(k) =>
                        /\ SetElementsCoerce(k)
                        /\ SetTokensInOrder(k)
                        /\ parts[k] = IF Len(filters[k].values.arr) = 1
                                      THEN "(contains(" \o NameTok(k) \o ", " \o ValueTok(k, "vs0") \o "))"
                                      ELSE "((" \o Join(ContainsCalls(k), " OR ") \o "))"

\* C14 witness: a number-set CONTAINS filter of two values, followed by a
\* string-set one, has compiled.
C14_Witness ==
    /\ fpc = "returned"
    /\ Len(filters) = 2
    /\ filters[1] = Filter("a", "NS", "CONTAINS", None, None, SomeArr(<<"2", "1">>))
    /\ parts[1] = "((contains(#f0, :f0vs0) OR contains(#f0, :f0vs1)))"
    /\ expressionAttributeValues[":f0vs0"] = JNum(2)
    /\ expressionAttributeValues[":f0vs1"] = JNum(1)
    /\ filters[2].condition = "CONTAINS"
    /\ filters[2].type = "SS"

\* C15: a NOT_CONTAINS filter at index i that compiles renders, on a scalar
\* type, exactly NOT contains(#f{i}, :f{i}v) with no wrapping parentheses,
\* and, on a string-set or number-set type with k >= 1 values, exactly
\* (NOT (c0 OR ... OR c{k-1})) with cj = contains(#f{i}, :f{i}vs{j}), also
\* when k = 1.
C15_NotContainsFragment ==
    \A k \in 1..Len(filters) :
        (filters[k].condition = "NOT_CONTAINS" /\ Compiled(k)) =>
            /\ filters[k].type \in ScalarTypes =>
                  /\ filters[k].value.has
                  /\ parts[k] = "NOT contains(" \o NameTok(k) \o ", " \o ValueTok(k, "v") \o ")"
                  /\ ValueKeysOf(k) = {ValueTok(k, "v")}
                  /\ expressionAttributeValues[ValueTok(k, "v")]
                        = parseValueByType(filters[k].type, JStr(filters[k].value.s)).val
            /\ filters[k].type \in SetTypes =>
                  /\ ~HasNoValues(filters[k])
                  /\ SetTokensInOrder(k)
                  /\ parts[k] = "(NOT (" \o Join(ContainsCalls(k), " OR ") \o "))"

\* C15 witness: a string-set NOT_CONTAINS filter of a single value has
\* compiled at index 1.
C15_Witness ==
    /\ fpc = "returned"
    /\ Len(filters) = 2
    /\ filters[2] = Filter("a", "SS", "NOT_CONTAINS", None, None, SomeArr(<<"1">>))
    /\ parts[2] = "(NOT (contains(#f1, :f1vs0)))"

BetweenForbiddenTypes == {"SS", "NS", "BOOL", "NULL"}

BothOperands(f) == f.value.has /\ f.value2.has

\* C16: a BETWEEN filter at index i fails with a missing-operand error
\* whenever value or value2 is absent, whatever its type (the operand check
\* comes before the type check); with both present it fails with a
\* type-mismatch error for the types string-set, number-set, boolean, null;
\* otherwise, both operands being coerced (a coercion failure is the only
\* other way to fail), it renders (#f{i} BETWEEN :f{i}v AND :f{i}v2) and adds
\* exactly the two value entries :f{i}v and :f{i}v2.
C16_BetweenFragment ==
    \A k \in 1..Len(filters) :
        filters[k].condition = "BETWEEN" =>
            /\ ~BothOperands(filters[k]) =>
                  /\ ~Compiled(k)
                  /\ FailedAt(k) => ferr = "BETWEEN requires value and value2 for filter["
                                             \o ToString(k - 1) \o "]"
            /\ (BothOperands(filters[k]) /\ filters[k].type \in BetweenForbiddenTypes) =>
                  /\ ~Compiled(k)
                  /\ FailedAt(k) => ferr = "BETWEEN is not valid for type " \o filters[k].type
                                             \o " (filter[" \o ToString(k - 1) \o "])"
            /\ (BothOperands(filters[k]) /\ filters[k].type \notin BetweenForbiddenTypes) =>
                  /\ FailedAt(k) =>
                        \/ ~parseValueByType(filters[k].type, JStr(filters[k].value.s)).ok
                        \/ ~parseValueByType(filters[k].type, JStr(filters[k].value2.s)).ok
                  /\ Compiled(k) =>
                        /\ parts[k] = "(" \o NameTok(k) \o " BETWEEN " \o ValueTok(k, "v")
                                          \o " AND " \o ValueTok(k, "v2") \o ")"
                        /\ ValueKeysOf(k) = {ValueTok(k, "v"), ValueTok(k, "v2")}
                        /\ expressionAttributeValues[ValueTok(k, "v")]
                              = parseValueByType(filters[k].type, JStr(filters[k].value.s)).val
                        /\ expressionAttributeValues[ValueTok(k, "v2")]
                              = parseValueByType(filters[k].type, JStr(filters[k].value2.s)).val

\* C16 witness: a string-set BETWEEN filter without value2 has failed at
\* index 1 with the missing-operand error, after a numeric BETWEEN filter had
\* compiled at index 0.
C16_Witness ==
    /\ fpc = "threw"
    /\ Len(filters) = 2
    /\ i = 1
    /\ filters[1] = Filter("b", "N", "BETWEEN", Some("1"), Some("2"), NoArr)
    /\ parts[1] = "(#f0 BETWEEN :f0v AND :f0v2)"
    /\ DOMAIN expressionAttributeValues = {":f0v", ":f0v2"}
    /\ filters[2] = Filter("a", "SS", "BETWEEN", Some("1"), None, NoArr)
    /\ ferr = "BETWEEN requires value and value2 for filter[1]"

-----------------------------------------------------------------------------
(* Properties of createKeyConditionExpression: the partition key and BETWEEN *)

C18_BetweenKeyCondition ==
    (KeyConditionDone /\ Truthy(queryRequest.sKey)
                      /\ queryRequest.skComparator.has
                      /\ queryRequest.skComparator.s \in {"BETWEEN", "between"})
    => IF Truthy(queryRequest.skValue2)
       THEN /\ qpc = "key-returned"
            /\ keyConditionExpression = "#pk = :pk AND #sk BETWEEN :sk AND :skValue2"
       ELSE /\ qpc = "key-threw"
            /\ qerr = "BETWEEN operation requires both sk and skValue2."
            /\ keyConditionExpression = ""

\* C18 witness: a BETWEEN request with a sort key and no second sort value
\* has failed.
C18_Witness ==
    /\ qpc = "key-threw"
    /\ queryRequest.sKey = Some("doc")
    /\ queryRequest.skComparator = Some("BETWEEN")
    /\ queryRequest.skValue2 = None
    /\ qerr = "BETWEEN operation requires both sk and skValue2."

-----------------------------------------------------------------------------
(* Properties of buildUpdateCommandInput: the generated expression *)

ItemOf(input) == input.item.arr

\* no item field's token :<field> is a key of the caller's value maps
NoCollidingCallerValues ==
    \A j \in 1..Len(ItemOf(updateInput)) :
        (":" \o ItemOf(updateInput)[j].field) \notin DOMAIN CallerSuppliedValues

IsReservedField(f) == ToLowerCase(f) \in RESERVED_KEYWORDS_SET

ExpectedAssignments ==
    [j \in 1..Len(ItemOf(updateInput)) |->
        (IF IsReservedField(ItemOf(updateInput)[j].field) THEN "#" ELSE "")
        \o ItemOf(updateInput)[j].field \o " = :" \o ItemOf(updateInput)[j].field]

AliasedFieldKeys ==
    { "#" \o ItemOf(updateInput)[j].field :
        j \in { n \in 1..Len(ItemOf(updateInput)) : IsReservedField(ItemOf(updateInput)[n].field) } }

ReturnedNames ==
    IF updateCommand.ExpressionAttributeNames.has THEN updateCommand.ExpressionAttributeNames.m
    ELSE EmptyMap

\* C19: in the generated mode with no colliding caller values, the update
\* expression is 'SET ' followed by one assignment per item field in the
\* item's iteration order, joined by ', ', each of the form
\* '<target> = :<field>' with target '#<field>' for a field that is a
\* reserved keyword in any letter case and '<field>' otherwise; the returned
\* name map holds '#<field>' -> '<field>' for each aliased field, a
\* caller-supplied entry of the same key being kept instead.
C19_GeneratedUpdateExpression ==
    (upc = "returned" /\ GeneratedMode /\ NoCollidingCallerValues)
    => /\ updateCommand.UpdateExpression = "SET " \o Join(ExpectedAssignments, ", ")
       /\ DOMAIN ReturnedNames = DOMAIN MergedCallerNames(updateInput) \cup AliasedFieldKeys
       /\ \A key \in DOMAIN ReturnedNames :
             ReturnedNames[key] = IF key \in DOMAIN MergedCallerNames(updateInput)
                                  THEN MergedCallerNames(updateInput)[key]
                                  ELSE SubSeq(key, 2, Len(key))

-----------------------------------------------------------------------------
(* Properties of replaceReservedKeywordsFromProjection *)

\* the items of the projection of the input, as split on commas
ProjectionItems == Split(queryInput.projectionExpression.s, ",")

\* the items of the projection of the command, which are joined by ', '
RECURSIVE SplitOnCommaSpace(_, _, _, _)
SplitOnCommaSpace(s, pos, cur, acc) ==
    IF pos > Len(s) THEN Append(acc, cur)
    ELSE IF pos < Len(s) /\ SubSeq(s, pos, pos + 1) = ", " THEN SplitOnCommaSpace(s, pos + 2, "", Append(acc, cur))
    ELSE SplitOnCommaSpace(s, pos + 1, cur \o Char(s, pos), acc)

AliasedItems == SplitOnCommaSpace(commandInput.ProjectionExpression.s, 1, "", <<>>)

\* C20: replaceReservedKeywordsFromProjection splits the projection on
\* commas, trims each item, prefixes an item with '#' if and only if the
\* whole trimmed item, lower-cased, is a reserved keyword, leaves every other
\* item (those already prefixed with '#' included) unchanged, and re-joins
\* the items with ', ' in the original order.
C20_ProjectionAliasing ==
    (qpc = "query-returned" /\ Truthy(queryInput.projectionExpression))
    => /\ commandInput.ProjectionExpression.has
       /\ Len(AliasedItems) = Len(ProjectionItems)
       /\ \A j \in 1..Len(ProjectionItems) :
             AliasedItems[j] = IF ToLowerCase(Trim(ProjectionItems[j])) \in RESERVED_KEYWORDS_SET
                               THEN "#" \o Trim(ProjectionItems[j])
                               ELSE Trim(ProjectionItems[j])

\* C20 witness: a projection with reserved words in other letter cases and a
\* word that only contains one has been rewritten.
C20_Witness ==
    /\ qpc = "query-returned"
    /\ queryInput.projectionExpression = Some("Name,STATUS ,names")
    /\ commandInput.ProjectionExpression = Some("#Name, #STATUS, names")


-----------------------------------------------------------------------------
(* C21: extras are merged last *)

\* the entries a merged map must hold: every extra entry, and every base entry
\* whose key no extra entry has
MergedExtrasLast(merged, base, extra) ==
    /\ DOMAIN merged = (DOMAIN base) \cup (DOMAIN extra)
    /\ \A k \in DOMAIN extra : merged[k] = extra[k]
    /\ \A k \in (DOMAIN base) \ (DOMAIN extra) : merged[k] = base[k]

\* what the query assembler generates by itself: the names without extras
AutoQueryNames ==
    QueryNames(queryRequest, QueryProjection(queryInput.projectionExpression), EmptyMap)

\* the map a scan returns, an absent map read as the empty one
ReturnedScanMap(m) == IF m.has THEN m.m ELSE EmptyMap

-----------------------------------------------------------------------------
(* Properties of extractQueryReqFromParams *)

\* the parameters given, null read as the empty object
RawParams == qParams.m

Supplies(key) == key \in DOMAIN RawParams

\* the value of a field when the defaults are overridden by the supplied params
OverriddenDefault(key) == IF Supplies(key) THEN RawParams[key] ELSE ObjGet(defaultQry, key)

NoNonBlankPKey == ~Supplies("pKey") \/ Trim(RawParams["pKey"].s) = ""

\* the fields of the result other than indexName are those of source, as the schema parses them
ResultFieldsFrom(source(_)) ==
    /\ parsedQuery.pKey = Trim(source("pKey").s)
    /\ parsedQuery.pKeyType = source("pKeyType").s
    /\ parsedQuery.pKeyProp = Trim(source("pKeyProp").s)
    /\ parsedQuery.sKey = qpStringOpt(StrOpt(source("sKey")))
    /\ parsedQuery.sKeyType = StrOpt(source("sKeyType"))
    /\ parsedQuery.sKeyProp = qpStringOpt(StrOpt(source("sKeyProp")))
    /\ parsedQuery.skComparator = StrOpt(source("skComparator"))
    /\ parsedQuery.limit.has = (source("limit").k # "undefined")
    /\ parsedQuery.limit.has => parsedQuery.limit.n = ToNumber(source("limit")).n

\* C22: when the params carry neither index nor indexName and no non-blank
\* pKey, the request returned is the defaults overridden by the supplied
\* params, and its indexName is defaultQry.indexName.
C22_NoIndexNoPKeyMergesDefaults ==
    (ppc = "returned" /\ ~Supplies("index") /\ ~Supplies("indexName") /\ NoNonBlankPKey) =>
        /\ ResultFieldsFrom(OverriddenDefault)
        /\ parsedQuery.indexName = StrOpt(ObjGet(defaultQry, "indexName"))


\* the params name an index under the key given: the key is there and not empty
Names(key) == Supplies(key) /\ RawParams[key].s # ""

\* C23: when the params supply indexName and index with different values, the
\* request returned carries the value of indexName as its indexName (the index
\* the routing used); the value of index is returned only when the params
\* supply no indexName.
C23_IndexNamePreferred ==
    /\ (ppc = "returned" /\ Names("indexName") /\ Supplies("index")
            /\ RawParams["index"] # RawParams["indexName"]) =>
        parsedQuery.indexName = Some(RawParams["indexName"].s)
    /\ (ppc = "returned" /\ Names("index") /\ ~Supplies("indexName")) =>
        parsedQuery.indexName = Some(RawParams["index"].s)


\* the index the params request: indexName, else index
RequestedIndex ==
    IF Supplies("indexName") THEN RawParams["indexName"]
    ELSE IF Supplies("index") THEN RawParams["index"] ELSE JUndefined

\* the value of a field taken from the params alone
FromParams(key) == ObjGet(RawParams, key)

\* the params stand alone: they carry a non-blank pKey, or request an index
\* that is not the default one
ParamsStandAlone ==
    \/ ~NoNonBlankPKey
    \/ JsTruthy(RequestedIndex) /\ RequestedIndex # ObjGet(defaultQry, "indexName")

\* C24: when the params carry a non-blank pKey, or request an index other than
\* defaultQry.indexName, every field of the request returned comes from the
\* params alone (limit is undefined when the params have none), and params
\* without pKeyType or pKeyProp raise QueryParseError instead of being filled
\* from the defaults.
C24_DefaultsOnlyWithoutPKeyOnDefaultIndex ==
    /\ (ppc = "returned" /\ ParamsStandAlone) => ResultFieldsFrom(FromParams)
    /\ (ppc \in {"returned", "threw"} /\ ParamsStandAlone
            /\ (~Supplies("pKeyType") \/ ~Supplies("pKeyProp"))) => ppc = "threw"


-----------------------------------------------------------------------------
(* C25: number coercion of key values *)

\* the value stored under a key token is the finite number its text parses to
StoredAsFiniteNumber(token, text) ==
    /\ IsFinite(commandInput.ExpressionAttributeValues[token])
    /\ commandInput.ExpressionAttributeValues[token] = Number(JStr(text))

\* C25: a key of type N is coerced as a filter value of type N is: a text that
\* does not parse to a finite number fails the call, so in a returned query
\* command the values under :pk and :sk of a type-N key are the finite numbers
\* their texts parse to, never a non-finite value.
C25_NumericKeysAreFinite ==
    qpc = "query-returned" =>
        /\ queryRequest.pKeyType = "N" => StoredAsFiniteNumber(":pk", queryRequest.pKey)
        /\ (Truthy(queryRequest.sKey) /\ queryRequest.sKeyType = Some("N")
                /\ ":sk" \notin DOMAIN queryInput.extraExpAttributeValues) =>
            StoredAsFiniteNumber(":sk", queryRequest.sKey.s)


-----------------------------------------------------------------------------
(* C26: calls are independent *)

\* what a filter call that has ended holds is what the call returns when run alone
EndsAsAlone(call, alone) ==
    /\ call.pc = "null" => alone.status = "null"
    /\ call.pc = "threw" => alone.status = "threw" /\ call.err = alone.err
    /\ call.pc = "returned" =>
        /\ alone.status = "returned"
        /\ call.output = alone.filterExpression
        /\ call.names = alone.expressionAttributeNames
        /\ call.vals = alone.expressionAttributeValues

CallEnded(call) == call.pc \in {"null", "threw", "returned"}

-----------------------------------------------------------------------------
(* C27: the key condition and its values *)

\* the text from p to q is a value token: ':' and a maximal run of word characters
IsValueTokenAt(expr, p, q) ==
    /\ Char(expr, p) = ":"
    /\ q > p
    /\ \A r \in (p + 1)..q : IsWordChar(Char(expr, r))
    /\ q = Len(expr) \/ ~IsWordChar(Char(expr, q + 1))

ValueTokensIn(expr) ==
    UNION { { SubSeq(expr, p, q) : q \in { x \in (p + 1)..Len(expr) : IsValueTokenAt(expr, p, x) } } :
                p \in { x \in 1..Len(expr) : Char(expr, x) = ":" } }

NoExtras ==
    /\ queryInput.extraExpAttributeNames = EmptyMap
    /\ queryInput.extraExpAttributeValues = EmptyMap

\* C27: in the command buildQueryCommandInput returns for a request that
\* dynamoQueryRequestSch accepts, assembled without extras, the keys of
\* ExpressionAttributeValues are exactly the value tokens that occur in
\* KeyConditionExpression, whatever the comparator.
C27_KeyValuesMatchTokens ==
    (qpc = "query-returned" /\ SchemaAccepted(queryRequest) /\ NoExtras) =>
        DOMAIN commandInput.ExpressionAttributeValues = ValueTokensIn(commandInput.KeyConditionExpression)


-----------------------------------------------------------------------------
(* C28: the collision-probing loop *)

\* the token of the part "field = token"
AssignedToken(part, field) == SubSeq(part, Len(field) + 4, Len(part))

\* the step of the loop that assigns field f its token, from the value map vals
\* accumulated so far: a field whose token :f holds a value in vals gets the next
\* free :f_update_n, found within (number of keys) + 1 probes, and no field
\* gets the token of an earlier field
ProbedAsClaimed(f, vals) ==
    /\ IsDefinedAt(vals, ":" \o f) =>
        AssignedToken(updateParts'[fieldIndex'], f) = NextFreeToken(vals, f)
    /\ \A k \in 1..fieldIndex :
        AssignedToken(updateParts'[fieldIndex'], f)
            # AssignedToken(updateParts[k], updateInput.item.arr[k].field)

\* C28: in every iteration of the loop of buildUpdateCommandInput, a colliding
\* field f is assigned :f_update_n for the smallest n >= 1 whose token is not
\* a key of the accumulated value map, which takes at most (number of keys) + 1
\* probes, and the token differs from the tokens of the earlier item fields.
C28_ProbeSelectsSmallestFreeToken ==
    [][(upc = "loop" /\ fieldIndex' = fieldIndex + 1) =>
            ProbedAsClaimed(updateInput.item.arr[fieldIndex + 1].field, updateValues)]_vars


-----------------------------------------------------------------------------
(* C29: the input of buildUpdateCommandInput is not written *)

\* the keys of an optional map of the input
KeysOf(m) == IF m.has THEN DOMAIN m.m ELSE {}

-----------------------------------------------------------------------------
(* C30: the value tokens of a filter expression *)

SetValued(f) == f.type \in SetTypes /\ f.condition \in {"CONTAINS", "NOT_CONTAINS"}

\* the number of operands of a filter: none for EXISTS and NOT_EXISTS, two for
\* BETWEEN, one per element for a set, one otherwise
OperandCount(f) ==
    IF f.condition \in {"EXISTS", "NOT_EXISTS"} THEN 0
    ELSE IF f.condition = "BETWEEN" THEN 2
    ELSE IF SetValued(f) THEN Len(f.values.arr)
    ELSE 1

RECURSIVE TotalOperands(_)
TotalOperands(fs) == IF Len(fs) = 0 THEN 0 ELSE OperandCount(Head(fs)) + TotalOperands(Tail(fs))

\* C30: in every result generateDynamoFilterAttributes returns, the keys of
\* the value map are exactly the value tokens that occur in the filter
\* expression, and no two operands share a token: the map has as many entries
\* as the filters have operands (none for EXISTS/NOT_EXISTS, two for BETWEEN,
\* k for a set of k elements, one otherwise).
C30_ValueTokensMatchOperands ==
    fpc = "returned" =>
        /\ DOMAIN expressionAttributeValues = ValueTokensIn(filterExpression)
        /\ Cardinality(DOMAIN expressionAttributeValues) = TotalOperands(filters)

\* a returned compilation of MaxFilters filters with a BETWEEN and a set of
\* two elements: four tokens
C30_Witness ==
    /\ fpc = "returned"
    /\ Len(filters) = MaxFilters
    /\ \E k \in 1..Len(filters) : filters[k].condition = "BETWEEN"
    /\ \E k \in 1..Len(filters) : SetValued(filters[k]) /\ Len(filters[k].values.arr) = 2
    /\ Cardinality(ValueTokensIn(filterExpression)) >= 4

====
